---- MODULE Spec2Model ----
(***************************************************************************)
(* Real-time layer of the civic-engagement backend: the onlineUsers        *)
(* registry and room membership kept by src/socket/socketHandler.js, the   *)
(* per-action authorisation of the socket handlers, and the fan-out of the *)
(* REST controllers through io.to(room).emit(...).                         *)
(*                                                                         *)
(* A room is a string, spelled as the source spells it: the bare user id   *)
(* (socket.join(userId.toString())), "user:<id>", "community:<id>",        *)
(* "post:<id>", the bare conversation id, "global:feed",                   *)
(* "admin:approvals", "admin:dashboard_logs".                              *)
(***************************************************************************)
EXTENDS Integers, Sequences, FiniteSets, Bags, TLC

\* ---------------------------------------------------------------- bounds
MaxConns == 3            \* socket ids that may ever connect
MaxMsgs == 2             \* chat messages that may ever be persisted
MaxLogs == 2             \* moderation log entries that may ever be persisted
MaxComments == 2         \* comments that may ever be persisted

\* ------------------------------------------------------------- universes
Users == {"a", "u"}      \* user ids; "a" carries role admin in its token
Communities == {"X"}
Convs == {"k"}           \* conversation ids
Posts == {"pc", "pg"}    \* "pc" is a post of community X, "pg" a global post
Options == {"yes", "no"} \* the option labels of the poll
Conns == 1..MaxConns
MsgIds == 1..MaxMsgs
CommentIds == 1..MaxComments
NoComment == 0
NoConn == 0
NoUser == "-"
NoCommunity == "-"

\* socket.user.role as decoded from the token (socketHandler.js:81)
RoleOf(u) == IF u = "a" THEN "admin" ELSE "citizen"

\* `user:${id}`, `community:${id}`, `post:${id}`
UserRoom(u) == "user:" \o u
CommunityRoom(x) == "community:" \o x
PostRoom(p) == "post:" \o p

GlobalFeed == "global:feed"
AdminApprovals == "admin:approvals"
AdminDashboardLogs == "admin:dashboard_logs"

\* room names a client may pass to joinRoom / leaveRoom
Rooms ==
    Users \cup {UserRoom(u) : u \in Users}
          \cup {CommunityRoom(x) : x \in Communities}
          \cup Convs
          \cup {GlobalFeed, AdminApprovals, AdminDashboardLogs}

VARIABLES
    connState,     \* socket: "idle" | "lookup" (connect-time Community.find
                   \* pending, handlers not yet registered) | "live" | "closed"
    connUser,      \* socket.user.userId of a connected socket
    rooms,         \* adapter rooms of each socket
    onlineUsers,   \* Map userId -> socket.id  (NoConn: no entry)
    members,       \* Community.members
    owners,        \* Community.owners
    moderators,    \* Community.moderators
    commStatus,    \* Community.status
    participants,  \* conversation.participants
    messages,      \* Message collection: id -> document
    nextMsg,       \* next free message id
    inflight,      \* sendMessage handlers suspended at an await
    arrivals,      \* number of sendMessage events received so far
    broadcasts,    \* the newMessage broadcasts made so far, in order
    calls,         \* REST and socket handlers suspended between their read
                   \* of a document and their write, oldest first
    poll,          \* the poll post: [votes: option -> count, votedUsers]
    memberList,    \* Community.members as the stored array
    membersCount,  \* Community.stats.membersCount
    reactions,     \* the likes and dislikes arrays of a post
    posts,         \* Post collection: id -> [author, community] (or absent)
    logs,          \* ModerationLog collection, in order of creation
    comments,      \* Comment collection: id -> document
    nextComment,   \* next free comment id
    notifications, \* Notification collection
    follows,       \* Follow collection: <<follower, following>>
    requests,      \* MembershipRequest collection: the status of the latest
                   \* request of a user for a community ("none": no request)
    invitations,   \* Invitation collection: the latest invitation of a user
                   \* to a community, [status, invitedBy]
    emits,         \* everything the last handler emitted, in order
    lastOp         \* the last handler that ran, with its arguments

vars == <<connState, connUser, rooms, onlineUsers, members, owners,
          moderators, commStatus, participants, messages, nextMsg, posts,
          logs, comments, nextComment, notifications, follows, requests,
          invitations, inflight, arrivals, broadcasts, calls, poll,
          memberList, membersCount, reactions, emits, lastOp>>

dbCommunity == <<members, owners, moderators, commStatus>>
handlers == <<inflight, arrivals, broadcasts>>
suspended == <<calls, poll, memberList, membersCount, reactions>>
dbChat == <<participants, messages, nextMsg, handlers, suspended>>
dbDecisions == <<requests, invitations>>
dbContent == <<posts, logs, comments, nextComment, notifications, follows,
               dbDecisions>>
sockets == <<connState, connUser, rooms, onlineUsers>>

\* --------------------------------------------------------------- emitting
\* io.to(room).emit(name)
ToRoom(room, name) ==
    [kind |-> "room", room |-> room, conn |-> NoConn, name |-> name, data |-> {}]
\* socket.emit(name)
ToSocket(c, name) ==
    [kind |-> "socket", room |-> "", conn |-> c, name |-> name, data |-> {}]
\* io.emit(name, data)
ToAll(name, data) ==
    [kind |-> "all", room |-> "", conn |-> NoConn, name |-> name, data |-> data]

Live(c) == connState[c] \in {"lookup", "live"}

\* Array.from(onlineUsers.keys())
OnlineKeys(reg) == {u \in Users : reg[u] # NoConn}

\* a list that names a registered user once for each of its sockets
OnlineListPerSocket(reg) ==
    [u \in OnlineKeys(reg) |->
        1 + Cardinality({c \in Conns : Live(c) /\ connUser[c] = u})]

\* the payload of user:onlineList, Array.from(onlineUsers.keys()), as the
\* bag of the ids it lists: a Map holds each key once
OnlineList(reg) == [u \in OnlineKeys(reg) |-> 1]

\* connections an emit is written to (socket.io adapter broadcast)
Receivers(e) ==
    CASE e.kind = "room"   -> {c \in Conns : Live(c) /\ e.room \in rooms[c]}
      [] e.kind = "socket" -> {c \in Conns : c = e.conn}
      [] OTHER             -> {c \in Conns : Live(c)}

\* number of times connection c is handed event `name` by the last handler
Deliveries(c, name) ==
    Cardinality({i \in 1..Len(emits) :
                    emits[i].name = name /\ c \in Receivers(emits[i])})

\* op: handler name; conn, user: the acting socket and its user; arg: the
\* identifier it was called with; ok: it took its success path; db: every
\* persistence call it made succeeded
Op(name, c, u, arg, ok) ==
    [op |-> name, conn |-> c, user |-> u, arg |-> arg, ok |-> ok, db |-> TRUE]
OpDb(name, c, u, arg, ok, db) ==
    [op |-> name, conn |-> c, user |-> u, arg |-> arg, ok |-> ok, db |-> db]

NoMsg == [conv |-> "", author |-> NoUser, text |-> "", attachments |-> {},
          isDeleted |-> FALSE, exists |-> FALSE]
NoPost == [author |-> NoUser, community |-> NoCommunity, exists |-> FALSE]
NoInvitation == [status |-> "none", invitedBy |-> NoUser]
NoCommentDoc == [post |-> "", author |-> NoUser, parent |-> NoComment,
                 repliesCount |-> 0, likes |-> <<>>, isDeleted |-> FALSE,
                 content |-> "", exists |-> FALSE]

\* ------------------------------------------------------------------- Init
InitSockets ==
    /\ connState = [c \in Conns |-> "idle"]
    /\ connUser = [c \in Conns |-> NoUser]
    /\ rooms = [c \in Conns |-> {}]
    /\ onlineUsers = [u \in Users |-> NoConn]
    /\ emits = <<>>
    /\ lastOp = Op("init", NoConn, NoUser, "", TRUE)

InitChat ==
    /\ participants = [k \in Convs |-> Users]
    /\ messages = [m \in MsgIds |-> NoMsg]
    /\ nextMsg = 1
    /\ inflight = {}
    /\ arrivals = 0
    /\ broadcasts = <<>>
    /\ calls = <<>>
    /\ poll = [votes |-> [o \in Options |-> 0], votedUsers |-> <<>>]
    /\ memberList = [x \in Communities |-> <<>>]
    /\ membersCount = [x \in Communities |-> 0]
    /\ reactions = [likes |-> <<>>, dislikes |-> <<>>]

\* the community a post id belongs to: "pc" is posted in X, "pg" globally
PostCommunity(p) == IF p = "pc" THEN "X" ELSE NoCommunity

\* no membership request and no invitation has been made yet
InitDecisions ==
    /\ requests = [x \in Communities |-> [u \in Users |-> "none"]]
    /\ invitations = [x \in Communities |-> [u \in Users |-> NoInvitation]]

InitPosts ==
    /\ posts = [p \in Posts |-> NoPost]
    /\ logs = <<>>
    /\ comments = [k \in CommentIds |-> NoCommentDoc]
    /\ nextComment = 1
    /\ notifications = {}
    /\ follows = {}
    /\ InitDecisions

\* the persisted communities the server starts with: any membership lists
InitCommunity ==
    /\ members \in [Communities -> SUBSET Users]
    /\ owners \in [Communities -> SUBSET Users]
    /\ moderators \in [Communities -> SUBSET Users]
    /\ commStatus \in [Communities -> {"pending", "approved"}]

Init == InitSockets /\ InitChat /\ InitPosts /\ InitCommunity

\* ------------------------------------------------ connection / disconnect
\* the same query without its status filter
CommunitiesOfAnyStatus(u) ==
    {x \in Communities : u \in members[x] \cup owners[x] \cup moderators[x]}

\* Community.find({$or: [members, owners, moderators], status: "approved"})
ApprovedCommunitiesOf(u) ==
    {x \in Communities :
        /\ commStatus[x] = "approved"
        /\ u \in members[x] \cup owners[x] \cup moderators[x]}

\* rooms joined synchronously by the connection handler
ConnectRooms(u) ==
    {u} \cup (IF RoleOf(u) = "admin" THEN {AdminApprovals} ELSE {})

\* io.on("connection") up to the first await: personal room, admin room,
\* onlineUsers.set, user:onlineList broadcast
Connect(c, u) ==
    /\ connState[c] = "idle"
    /\ connState' = [connState EXCEPT ![c] = "lookup"]
    /\ connUser' = [connUser EXCEPT ![c] = u]
    /\ rooms' = [rooms EXCEPT ![c] = ConnectRooms(u)]
    /\ onlineUsers' = [onlineUsers EXCEPT ![u] = c]
    /\ emits' = <<ToAll("user:onlineList", OnlineList(onlineUsers'))>>
    /\ lastOp' = Op("connect", c, u, "", TRUE)
    /\ UNCHANGED <<dbCommunity, dbChat, dbContent>>

\* the connect-time Community.find resolves (found = TRUE) or throws; the
\* community rooms are joined and only now the socket's handlers, the
\* disconnect handler included, are registered
LookupDone(c, found) ==
    /\ connState[c] = "lookup"
    /\ connState' = [connState EXCEPT ![c] = "live"]
    /\ rooms' = [rooms EXCEPT ![c] =
                   @ \cup (IF found
                           THEN {CommunityRoom(x) : x \in ApprovedCommunitiesOf(connUser[c])}
                           ELSE {})]
    /\ emits' = <<>>
    /\ lastOp' = Op("lookup", c, connUser[c], "", found)
    /\ UNCHANGED <<connUser, onlineUsers, dbCommunity, dbChat, dbContent>>

\* [...onlineUsers.entries()].find(([_, id]) => id === socket.id)?.[0]
DisconnectedUserId(c) ==
    IF \E u \in Users : onlineUsers[u] = c
    THEN CHOOSE u \in Users : onlineUsers[u] = c
    ELSE NoUser

\* socket.on("disconnect"): runs only if the handler has been registered,
\* i.e. the socket is past its connect-time lookup
DisconnectHandler(c) ==
    LET d == DisconnectedUserId(c) IN
    IF connState[c] = "live" /\ d # NoUser
    THEN /\ onlineUsers' = [onlineUsers EXCEPT ![d] = NoConn]
         /\ emits' = <<ToAll("user:onlineList", OnlineList(onlineUsers'))>>
    ELSE /\ onlineUsers' = onlineUsers
         /\ emits' = <<>>

\* the transport of a connected socket closes: socket.io drops the socket
\* from all its rooms and fires "disconnect"
Disconnect(c) ==
    /\ Live(c)
    /\ DisconnectHandler(c)
    /\ connState' = [connState EXCEPT ![c] = "closed"]
    /\ rooms' = [rooms EXCEPT ![c] = {}]
    /\ lastOp' = Op("disconnect", c, connUser[c], "", connState[c] = "live")
    /\ UNCHANGED <<connUser, dbCommunity, dbChat, dbContent>>


\* ------------------------------------------------- room handlers (socket)
\* community ids a client may send: an existing community, a well-formed id
\* of no community, a malformed id
NoSuchCommunity == "nil"
BadId == "bad"
CommunityArgs == Communities \cup {NoSuchCommunity, BadId}

\* mongoose.Types.ObjectId.isValid(id)
IsValidId(id) == id # BadId

\* isUserCommunityMemberOrAdmin(userId, communityId); dbOk = FALSE is a
\* Community.findById that throws
IsUserCommunityMemberOrAdmin(u, x, dbOk) ==
    IF ~dbOk \/ x \notin Communities
    THEN [isMember |-> FALSE, isAdmin |-> FALSE]
    ELSE [isMember |-> u \in members[x] \/ u \in owners[x],
          isAdmin |-> u \in owners[x] \/ u \in moderators[x]]

\* what a socket handler leaves alone besides rooms, emits and lastOp
SocketFrame == UNCHANGED <<connState, connUser, onlineUsers, dbCommunity, dbChat, dbContent>>

\* a join that drops the rooms the socket was in
JoinRoomExclusive(c, roomId) == {roomId}

\* socket.on("joinRoom")
JoinRoomTarget(c, roomId) == rooms[c] \cup {roomId}

JoinRoom(c, roomId) ==
    /\ connState[c] = "live"
    /\ rooms' = [rooms EXCEPT ![c] = JoinRoomTarget(c, roomId)]
    /\ emits' = <<>>
    /\ lastOp' = Op("joinRoom", c, connUser[c], roomId, TRUE)
    /\ SocketFrame

\* socket.on("leaveRoom")
LeaveRoom(c, roomId) ==
    /\ connState[c] = "live"
    /\ rooms' = [rooms EXCEPT ![c] = @ \ {roomId}]
    /\ emits' = <<>>
    /\ lastOp' = Op("leaveRoom", c, connUser[c], roomId, TRUE)
    /\ SocketFrame

\* socket.on("joinGlobalFeedRoom")
JoinGlobalFeedRoom(c) ==
    /\ connState[c] = "live"
    /\ rooms' = [rooms EXCEPT ![c] = JoinRoomTarget(c, GlobalFeed)]
    /\ emits' = <<ToSocket(c, "joinedGlobalFeedRoom")>>
    /\ lastOp' = Op("joinGlobalFeedRoom", c, connUser[c], "", TRUE)
    /\ SocketFrame

\* socket.on("leaveGlobalFeedRoom")
LeaveGlobalFeedRoom(c) ==
    /\ connState[c] = "live"
    /\ rooms' = [rooms EXCEPT ![c] = @ \ {GlobalFeed}]
    /\ emits' = <<ToSocket(c, "leftGlobalFeedRoom")>>
    /\ lastOp' = Op("leaveGlobalFeedRoom", c, connUser[c], "", TRUE)
    /\ SocketFrame

\* socket.on("joinPostRoom"): the post id is not looked up
JoinPostRoom(c, postId) ==
    /\ connState[c] = "live"
    /\ rooms' = [rooms EXCEPT ![c] = JoinRoomTarget(c, PostRoom(postId))]
    /\ emits' = <<>>
    /\ lastOp' = Op("joinPostRoom", c, connUser[c], postId, TRUE)
    /\ SocketFrame

\* socket.on("leavePostRoom")
LeavePostRoom(c, postId) ==
    /\ connState[c] = "live"
    /\ rooms' = [rooms EXCEPT ![c] = @ \ {PostRoom(postId)}]
    /\ emits' = <<>>
    /\ lastOp' = Op("leavePostRoom", c, connUser[c], postId, TRUE)
    /\ SocketFrame

\* the authorisation taken from the handshake instead of a fresh check
FeedRoomAuthorizedStale(auth) == TRUE

\* the check of joinCommunityFeedRoom: if (!isMember) reject
FeedRoomAuthorized(auth) == auth.isMember

\* socket.on("joinCommunityFeedRoom")
JoinCommunityFeedRoom(c, communityId, dbOk) ==
    LET auth == IsUserCommunityMemberOrAdmin(connUser[c], communityId, dbOk)
        ok == IsValidId(communityId) /\ FeedRoomAuthorized(auth)
    IN
    /\ connState[c] = "live"
    /\ IsValidId(communityId) \/ dbOk      \* no lookup is made for a bad id
    /\ rooms' = [rooms EXCEPT ![c] =
                   IF ok THEN @ \cup {CommunityRoom(communityId)} ELSE @]
    /\ emits' = IF ok THEN <<ToSocket(c, "joinedCommunityFeedRoom")>>
                ELSE <<ToSocket(c, "errorMessage")>>
    /\ lastOp' = OpDb("joinCommunityFeedRoom", c, connUser[c], communityId, ok, dbOk)
    /\ SocketFrame

\* the check of joinCommunityRoom: if (!isMember && !isAdmin) reject
CommunityRoomAuthorized(auth) == auth.isMember \/ auth.isAdmin

\* socket.on("joinCommunityRoom")
JoinCommunityRoom(c, communityId, dbOk) ==
    LET auth == IsUserCommunityMemberOrAdmin(connUser[c], communityId, dbOk)
        ok == IsValidId(communityId) /\ CommunityRoomAuthorized(auth)
    IN
    /\ connState[c] = "live"
    /\ IsValidId(communityId) \/ dbOk
    /\ rooms' = [rooms EXCEPT ![c] =
                   IF ok THEN @ \cup {CommunityRoom(communityId)} ELSE @]
    /\ emits' = IF ok THEN <<ToSocket(c, "joinedCommunityRoom")>>
                ELSE <<ToSocket(c, "errorMessage")>>
    /\ lastOp' = OpDb("joinCommunityRoom", c, connUser[c], communityId, ok, dbOk)
    /\ SocketFrame

\* socket.on("leaveCommunityFeedRoom")
LeaveCommunityFeedRoom(c, communityId) ==
    /\ connState[c] = "live"
    /\ rooms' = [rooms EXCEPT ![c] = @ \ {CommunityRoom(communityId)}]
    /\ emits' = <<ToSocket(c, "leftCommunityFeedRoom")>>
    /\ lastOp' = Op("leaveCommunityFeedRoom", c, connUser[c], communityId, TRUE)
    /\ SocketFrame

\* socket.on("leaveCommunityRoom")
LeaveCommunityRoom(c, communityId) ==
    /\ connState[c] = "live"
    /\ rooms' = [rooms EXCEPT ![c] = @ \ {CommunityRoom(communityId)}]
    /\ emits' = <<ToSocket(c, "leftCommunityRoom")>>
    /\ lastOp' = Op("leaveCommunityRoom", c, connUser[c], communityId, TRUE)
    /\ SocketFrame

\* socket.on("joinAdminApprovalRoom")
JoinAdminApprovalRoom(c) ==
    LET ok == RoleOf(connUser[c]) = "admin" IN
    /\ connState[c] = "live"
    /\ rooms' = [rooms EXCEPT ![c] = IF ok THEN @ \cup {AdminApprovals} ELSE @]
    /\ emits' = IF ok THEN <<>> ELSE <<ToSocket(c, "errorMessage")>>
    /\ lastOp' = Op("joinAdminApprovalRoom", c, connUser[c], "", ok)
    /\ SocketFrame

\* socket.on("user:online", (userId) => ...): joins `user:${userId}` for
\* whatever id the client sends
UserOnline(c, id) ==
    /\ connState[c] = "live"
    /\ rooms' = [rooms EXCEPT ![c] = @ \cup {UserRoom(id)}]
    /\ emits' = <<>>
    /\ lastOp' = Op("user:online", c, connUser[c], id, TRUE)
    /\ SocketFrame

\* a user is taken off a community's lists by the persistence layer
RemoveFromCommunity(x, u) ==
    /\ u \in members[x] \cup owners[x] \cup moderators[x]
    /\ members' = [members EXCEPT ![x] = @ \ {u}]
    /\ owners' = [owners EXCEPT ![x] = @ \ {u}]
    /\ moderators' = [moderators EXCEPT ![x] = @ \ {u}]
    /\ emits' = <<>>
    /\ lastOp' = Op("removeFromCommunity", NoConn, u, x, TRUE)
    /\ UNCHANGED <<sockets, commStatus, dbChat, dbContent>>

\* ------------------------------------------------- chat handlers (socket)
\* the conversations are group discussions
ConversationModel(k) == "group"
ConversationTypes == {"group", "personal"}
ConvArgs == Convs \cup {BadId}
MsgArgs == MsgIds \cup {NoConn}      \* NoConn (0): a malformed message id
Texts == {" yo ", ""}
DeletedText == "This message was deleted."

\* String.prototype.trim on the texts of the model
Trim(t) == IF t = " yo " THEN "yo" ELSE t

\* the text of a message is `required` (messageModel.js:16)
TextValid(t) == t # ""

\* a check that the conversation exists, without looking for the user in it
IsUserParticipantAnyone(conversationType, k, u, dbOk) ==
    /\ dbOk
    /\ k \in Convs
    /\ ConversationModel(k) = conversationType

\* isUserParticipant(conversationType, conversationId, userId): looks the id
\* up in the collection the client named; dbOk = FALSE is a findById that
\* throws
IsUserParticipant(conversationType, k, u, dbOk) ==
    /\ dbOk
    /\ k \in Convs
    /\ ConversationModel(k) = conversationType
    /\ u \in participants[k]

ChatFrame == UNCHANGED <<sockets, dbCommunity, dbContent, handlers, suspended>>

\* socket.on("sendMessage"); saveOk = FALSE is a message.save() that throws,
\* laterOk = FALSE a populate / findByIdAndUpdate that throws after the save
SendMessage(c, conversationType, k, text, att, dbOk, saveOk, laterOk) ==
    LET u == connUser[c]
        authorized == IsValidId(k) /\ IsUserParticipant(conversationType, k, u, dbOk)
        saved == authorized /\ saveOk /\ TextValid(text)
        ok == saved /\ laterOk
    IN
    /\ connState[c] = "live"
    \* outcomes of calls that are not made are not enumerated
    /\ IsValidId(k) \/ dbOk
    /\ authorized \/ (saveOk /\ laterOk /\ text = "" /\ att = {})
    /\ (saveOk /\ TextValid(text)) \/ laterOk
    /\ saved => nextMsg <= MaxMsgs
    /\ messages' = IF saved
                   THEN [messages EXCEPT ![nextMsg] =
                           [conv |-> k, author |-> u, text |-> text,
                            attachments |-> att, isDeleted |-> FALSE,
                            exists |-> TRUE]]
                   ELSE messages
    /\ nextMsg' = IF saved THEN nextMsg + 1 ELSE nextMsg
    /\ emits' = IF ok THEN <<ToRoom(k, "newMessage")>>
                ELSE <<ToSocket(c, "errorMessage")>>
    /\ lastOp' = OpDb("sendMessage", c, u, k, ok, dbOk /\ saveOk /\ laterOk)
    /\ UNCHANGED participants
    /\ ChatFrame

\* the permission check of editMessage and deleteMessage
MayChangeMessage(m, u) == messages[m].author = u

\* socket.on("editMessage"); dbOk = FALSE is a findById or save that throws
EditMessage(c, m, text, dbOk) ==
    LET u == connUser[c]
        found == m \in MsgIds /\ dbOk /\ messages[m].exists /\ ~messages[m].isDeleted
        allowed == found /\ MayChangeMessage(m, u)
        ok == allowed /\ TextValid(Trim(text))
    IN
    /\ connState[c] = "live"
    /\ m \in MsgIds \/ dbOk
    /\ messages' = IF ok THEN [messages EXCEPT ![m].text = Trim(text)]
                   ELSE messages
    /\ emits' = IF ok THEN <<ToRoom(messages[m].conv, "messageEdited")>>
                ELSE IF found /\ ~allowed THEN <<ToSocket(c, "errorMessage")>>
                ELSE <<>>
    /\ lastOp' = OpDb("editMessage", c, u, "", ok, dbOk)
    /\ UNCHANGED <<participants, nextMsg>>
    /\ ChatFrame

\* socket.on("deleteMessage")
DeleteMessage(c, m, dbOk) ==
    LET u == connUser[c]
        found == m \in MsgIds /\ dbOk /\ messages[m].exists /\ ~messages[m].isDeleted
        ok == found /\ MayChangeMessage(m, u)
    IN
    /\ connState[c] = "live"
    /\ m \in MsgIds \/ dbOk
    /\ messages' = IF ok
                   THEN [messages EXCEPT ![m].isDeleted = TRUE,
                                         ![m].text = DeletedText,
                                         ![m].attachments = {}]
                   ELSE messages
    /\ emits' = IF ok THEN <<ToRoom(messages[m].conv, "messageDeleted")>>
                ELSE IF found THEN <<ToSocket(c, "errorMessage")>>
                ELSE <<>>
    /\ lastOp' = OpDb("deleteMessage", c, u, "", ok, dbOk)
    /\ UNCHANGED <<participants, nextMsg>>
    /\ ChatFrame

\* updateGroupDiscussion with a participants list in the body
UpdateGroupDiscussion(k, ps) ==
    /\ participants[k] # ps
    /\ participants' = [participants EXCEPT ![k] = ps]
    /\ emits' = <<>>
    /\ lastOp' = Op("updateGroupDiscussion", NoConn, NoUser, k, TRUE)
    /\ UNCHANGED <<sockets, dbCommunity, messages, nextMsg, dbContent, handlers,
                   suspended>>

\* ------------------------------------- sendMessage at the grain of awaits
\* The handler is an async function: socket.io calls it for each event as
\* it arrives and does not wait for the promise, so a second event starts
\* its handler while the first is suspended at an await.
Awaits == <<"isUserParticipant", "save", "populate", "findByIdAndUpdate">>

\* the handlers in flight leave everything but the chat state alone
StepFrame == UNCHANGED <<sockets, dbCommunity, dbContent, participants, suspended>>

\* a sendMessage event arrives on socket c: the handler runs up to its
\* first await (a malformed id is answered at once)
SendMessageArrives(c, conversationType, k, text) ==
    /\ connState[c] = "live"
    /\ arrivals < MaxMsgs
    /\ arrivals' = arrivals + 1
    /\ inflight' = IF IsValidId(k)
                   THEN inflight \cup
                          {[conn |-> c, seq |-> arrivals + 1,
                            conversationType |-> conversationType, conv |-> k,
                            text |-> text, at |-> 1]}
                   ELSE inflight
    /\ emits' = IF IsValidId(k) THEN <<>> ELSE <<ToSocket(c, "errorMessage")>>
    /\ lastOp' = Op("sendMessage:arrived", c, connUser[c], k, IsValidId(k))
    /\ UNCHANGED <<messages, nextMsg, broadcasts>>
    /\ StepFrame

\* the handler of socket c's event number seq, if it is suspended
Suspended(c, seq) == {h \in inflight : h.conn = c /\ h.seq = seq}

\* the await that the handler of event seq of socket c waits on settles,
\* resolved (ok) or rejected, and it runs on to its next await or its end
SendMessageResumes(c, seq, ok) ==
    LET h == CHOOSE g \in Suspended(c, seq) : TRUE
        u == connUser[c]
        passes ==
            CASE Awaits[h.at] = "isUserParticipant" ->
                   IsUserParticipant(h.conversationType, h.conv, u, ok)
              [] Awaits[h.at] = "save" -> ok /\ TextValid(h.text)
              [] OTHER -> ok
        done == passes /\ h.at = Len(Awaits)
    IN
    /\ Suspended(c, seq) # {}
    /\ inflight' = IF passes /\ ~done
                   THEN (inflight \ {h}) \cup {[h EXCEPT !.at = @ + 1]}
                   ELSE inflight \ {h}
    /\ IF passes /\ Awaits[h.at] = "save"
       THEN /\ messages' = [messages EXCEPT ![nextMsg] =
                              [conv |-> h.conv, author |-> u, text |-> h.text,
                               attachments |-> {}, isDeleted |-> FALSE,
                               exists |-> TRUE]]
            /\ nextMsg' = nextMsg + 1
       ELSE UNCHANGED <<messages, nextMsg>>
    /\ broadcasts' = IF done
                     THEN Append(broadcasts, [conn |-> h.conn, seq |-> h.seq])
                     ELSE broadcasts
    /\ emits' = IF done THEN <<ToRoom(h.conv, "newMessage")>>
                ELSE IF passes THEN <<>>
                ELSE <<ToSocket(h.conn, "errorMessage")>>
    /\ lastOp' = OpDb("sendMessage:resumed", h.conn, u, h.conv, passes, ok)
    /\ UNCHANGED arrivals
    /\ StepFrame

\* -------------------------------------------- fan-out of the controllers
\* The token of a request carries its user's id under every name the
\* controllers read (req.user.userId, req.user.id, req.user._id).
UserOrder == <<"a", "u">>

\* the users of a set, as the sequence a forEach visits
SeqOf(S) == SelectSeq(UserOrder, LAMBDA u : u \in S)

\* User.find({ role: 'admin' })
Admins == {u \in Users : RoleOf(u) = "admin"}

RECURSIVE Flatten(_)
Flatten(ss) == IF ss = <<>> THEN <<>> ELSE Head(ss) \o Flatten(Tail(ss))

LogEntry(x, moderator, action, target) ==
    [communityId |-> x, moderatorId |-> moderator, action |-> action,
     targetId |-> target]

\* the owners followed by the moderators, a user of both lists twice
AdminAndModIdsListed(os, ms) == SeqOf(os) \o SeqOf(ms)

\* new Set([...community.owners, ...community.moderators]), as visited
AdminAndModIds(os, ms) == SeqOf(os \cup ms)

\* adminAndModIds.forEach: a badge push to each id found in the registry
BadgePushes(ids, reg) ==
    LET online == SelectSeq(ids, LAMBDA u : reg[u] # NoConn) IN
    [i \in 1..Len(online) |->
        ToRoom(UserRoom(online[i]), "notification:count:update")]

\* createLogInternal after log.save(): the real-time part. For a community
\* log every online owner or moderator gets a badge push and the community
\* room the log event. For a global log the lookup of the admins reads
\* `User`, which moderationLogController.js never imports: it throws and
\* the catch returns null before anything is emitted.
CreateLogInternalEmits(x, reg, os, ms) ==
    IF x # NoCommunity
    THEN BadgePushes(AdminAndModIds(os, ms), reg)
         \o <<ToRoom(CommunityRoom(x), "moderation:log:created")>>
    ELSE <<>>

\* a save that writes over the newest entry
SaveLogOverNewest(ls, entry) ==
    IF ls = <<>> THEN <<entry>> ELSE [ls EXCEPT ![Len(ls)] = entry]

\* log.save() of a new ModerationLog: one more document
SaveLog(ls, entry) == Append(ls, entry)

\* a save that leaves the entry behind even when it throws
CreateLogInternalLogsPartial(entry, saveOk) == Append(logs, entry)

\* createLogInternal(logData): what it appends to the collection
\* (saveOk = FALSE is a log.save() that throws)
CreateLogInternalLogs(entry, saveOk) ==
    IF saveOk THEN SaveLog(logs, entry) ELSE logs

RestFrame == UNCHANGED <<sockets, dbChat, dbDecisions>>

\* createCommunity: the community is saved pending with its creator as the
\* only owner; online admins, the admin room, and the moderation log
CreateCommunity(x, creator, logOk) ==
    LET exists == commStatus[x] # "none"
        onlineAdminIds == SeqOf(Admins \cap OnlineKeys(onlineUsers))
        toAdmins == Flatten([i \in 1..Len(onlineAdminIds) |->
                        <<ToRoom(UserRoom(onlineAdminIds[i]), "community:newApprovalRequest"),
                          ToRoom(UserRoom(onlineAdminIds[i]), "notification:count:update")>>])
    IN
    /\ Len(logs) < MaxLogs
    /\ exists => logOk
    /\ IF exists
       THEN /\ UNCHANGED <<dbCommunity, logs>>
            /\ emits' = <<>>
       ELSE /\ commStatus' = [commStatus EXCEPT ![x] = "pending"]
            /\ owners' = [owners EXCEPT ![x] = {creator}]
            /\ members' = [members EXCEPT ![x] = {}]
            /\ moderators' = [moderators EXCEPT ![x] = {}]
            /\ logs' = CreateLogInternalLogs(
                          LogEntry(x, creator, "community_creation_requested", x), logOk)
            /\ emits' = toAdmins
                        \o <<ToRoom(AdminApprovals, "community:newApprovalRequest")>>
                        \o (IF logOk
                            THEN CreateLogInternalEmits(x, onlineUsers, {creator}, {})
                            ELSE <<>>)
    /\ lastOp' = OpDb("createCommunity", NoConn, creator, x, ~exists, logOk)
    /\ UNCHANGED <<posts, comments, nextComment, notifications, follows>>
    /\ RestFrame

\* reviewCommunity by an admin; creator is community.owners[0]
ReviewCommunity(x, admin, action, creator, logOk) ==
    LET pending == commStatus[x] = "pending"
        approve == action = "approve"
    IN
    /\ RoleOf(admin) = "admin"           \* roleAuthorization middleware
    /\ Len(logs) < MaxLogs
    /\ pending => creator \in owners[x]
    /\ ~pending => (logOk /\ creator = admin)
    /\ IF ~pending
       THEN /\ UNCHANGED <<commStatus, logs>>
            /\ emits' = <<>>
       ELSE /\ commStatus' = [commStatus EXCEPT ![x] =
                                IF approve THEN "approved" ELSE "rejected"]
            /\ logs' = CreateLogInternalLogs(
                          LogEntry(x, admin,
                                   IF approve THEN "community_approved"
                                   ELSE "community_rejected", x), logOk)
            /\ emits' =
                 IF approve
                 THEN <<ToRoom(UserRoom(creator), "community:approved"),
                        ToRoom(UserRoom(creator), "notification:count:update")>>
                      \o (IF logOk
                          THEN CreateLogInternalEmits(x, onlineUsers,
                                                      owners[x], moderators[x])
                          ELSE <<>>)
                      \o <<ToAll("community:newlyApproved", {})>>
                 ELSE <<ToRoom(creator, "community:rejected"),
                        ToRoom(creator, "notification:count:update")>>
                      \o (IF logOk
                          THEN CreateLogInternalEmits(x, onlineUsers,
                                                      owners[x], moderators[x])
                          ELSE <<>>)
    /\ lastOp' = OpDb("reviewCommunity", NoConn, admin, x, pending, logOk)
    /\ UNCHANGED <<members, owners, moderators, posts, comments, nextComment,
                   notifications, follows>>
    /\ RestFrame

\* ------------------------------------------- handlers taken step by step
MaxCalls == 2            \* handlers that may be suspended at the same time

\* the documents only the suspended handlers write
suspendedData == <<poll, memberList, membersCount, reactions>>

\* a suspended handler resumes and leaves the list
RemoveAt(seq, i) == SubSeq(seq, 1, i - 1) \o SubSeq(seq, i + 1, Len(seq))

\* what reviewCommunity emits after community.save()
ReviewCommunityEmits(x, action, creator, logOk) ==
    LET logged == IF logOk
                  THEN CreateLogInternalEmits(x, onlineUsers, owners[x], moderators[x])
                  ELSE <<>>
    IN IF action = "approve"
       THEN <<ToRoom(UserRoom(creator), "community:approved"),
              ToRoom(UserRoom(creator), "notification:count:update")>>
            \o logged \o <<ToAll("community:newlyApproved", {})>>
       ELSE <<ToRoom(creator, "community:rejected"),
              ToRoom(creator, "notification:count:update")>>
            \o logged

\* reviewCommunity up to its first await: Community.findById has answered
\* and the status is compared with "pending"; a reviewed community is
\* answered with 400 at once
ReviewCommunityReads(x, admin, action) ==
    /\ RoleOf(admin) = "admin"           \* roleAuthorization middleware
    /\ commStatus[x] # "none"
    /\ Len(calls) < MaxCalls
    /\ IF commStatus[x] = "pending"
       THEN /\ calls' = Append(calls, [kind |-> "reviewCommunity", community |-> x,
                                       user |-> admin, action |-> action])
            /\ lastOp' = Op("reviewCommunity:read", NoConn, admin, x, TRUE)
       ELSE /\ calls' = calls
            /\ lastOp' = Op("reviewCommunity", NoConn, admin, x, FALSE)
    /\ emits' = <<>>
    /\ UNCHANGED <<sockets, dbCommunity, dbContent, participants, messages,
                   nextMsg, handlers, suspendedData>>

\* reviewCommunity from community.save() on: the status read before the
\* await is not read again
ReviewCommunitySaves(i, creator, logOk) ==
    /\ i \in 1..Len(calls)
    /\ calls[i].kind = "reviewCommunity"
    /\ creator \in owners[calls[i].community]
    /\ Len(logs) < MaxLogs
    /\ LET x == calls[i].community
           approve == calls[i].action = "approve"
       IN /\ commStatus' = [commStatus EXCEPT ![x] =
                               IF approve THEN "approved" ELSE "rejected"]
          /\ logs' = CreateLogInternalLogs(
                        LogEntry(x, calls[i].user,
                                 IF approve THEN "community_approved"
                                 ELSE "community_rejected", x), logOk)
          /\ emits' = ReviewCommunityEmits(x, calls[i].action, creator, logOk)
          /\ lastOp' = OpDb("reviewCommunity", NoConn, calls[i].user, x, TRUE, logOk)
    /\ calls' = RemoveAt(calls, i)
    /\ UNCHANGED <<sockets, members, owners, moderators, posts, comments,
                   nextComment, notifications, follows, dbDecisions,
                   participants, messages, nextMsg, handlers, suspendedData>>

\* getPostTargetRoom(post)
GetPostTargetRoom(communityId) ==
    IF communityId # NoCommunity THEN CommunityRoom(communityId) ELSE GlobalFeed

\* createPost: the users whose badge count a new post bumps
NotifiedUserIds(communityId, authorId) ==
    (IF communityId # NoCommunity
     THEN members[communityId] \cup owners[communityId] \cup moderators[communityId]
     ELSE OnlineKeys(onlineUsers)) \ {authorId}

\* createPost by `author` of the post with id p
CreatePost(p, author) ==
    LET x == PostCommunity(p)
        allowed == x = NoCommunity
                   \/ (commStatus[x] # "none" /\ author \in members[x])
        targets == SeqOf(NotifiedUserIds(x, author) \cap OnlineKeys(onlineUsers))
    IN
    /\ ~posts[p].exists
    /\ posts' = IF allowed
                THEN [posts EXCEPT ![p] = [author |-> author, community |-> x,
                                           exists |-> TRUE]]
                ELSE posts
    /\ emits' = IF allowed
                THEN <<ToRoom(GetPostTargetRoom(x), "newPost")>>
                     \o [i \in 1..Len(targets) |->
                            ToRoom(UserRoom(targets[i]), "notification:count:update")]
                ELSE <<>>
    /\ lastOp' = Op("createPost", NoConn, author, p, allowed)
    /\ UNCHANGED <<dbCommunity, logs, comments, nextComment, notifications, follows>>
    /\ RestFrame

\* deletePost: who else than the room is told that the post is gone
DeletePostAuthorEmits(postAuthorId, userId) ==
    IF onlineUsers[postAuthorId] # NoConn /\ postAuthorId # userId
    THEN <<ToRoom(UserRoom(postAuthorId), "postDeleted"),
           ToRoom(UserRoom(postAuthorId), "notification:count:update")>>
    ELSE <<>>

\* deletePost by userId (logOk = FALSE is a moderationLog.save() that throws)
DeletePost(p, userId, logOk) ==
    LET post == posts[p]
        x == post.community
        inCommunity == x # NoCommunity
        allowed == \/ post.author = userId
                   \/ (inCommunity /\ userId \in owners[x] \cup moderators[x])
                   \/ RoleOf(userId) = "admin"
        ok == post.exists /\ allowed
    IN
    /\ Len(logs) < MaxLogs
    /\ ok \/ logOk
    /\ posts' = IF ok THEN [posts EXCEPT ![p] = NoPost] ELSE posts
    /\ logs' = IF ok
               THEN CreateLogInternalLogs(LogEntry(x, userId, "post_removed", p), logOk)
               ELSE logs
    /\ emits' = IF ok
                THEN DeletePostAuthorEmits(post.author, userId)
                     \o <<ToRoom(GetPostTargetRoom(x), "postDeleted")>>
                     \o (IF logOk /\ inCommunity
                         THEN <<ToRoom(CommunityRoom(x), "moderation:log:created")>>
                         ELSE <<>>)
                ELSE <<>>
    /\ lastOp' = OpDb("deletePost", NoConn, userId, p, ok, logOk)
    /\ UNCHANGED <<dbCommunity, comments, nextComment, notifications, follows>>
    /\ RestFrame

\* ------------------------------------------------ comments and follows
PostArgs == Posts \cup {"nopost"}
NoSuchUser == "nobody"

\* a recipient chosen without comparing the author with the commenter
CommentRecipientEvenSelf(userId, p, parentId) ==
    IF parentId # NoComment
    THEN IF comments[parentId].exists THEN comments[parentId].author ELSE NoUser
    ELSE posts[p].author

\* _handleCreateComment: the user told about the new comment, NoUser if
\* nobody is (a reply goes to the parent's author, a comment to the post's)
CommentRecipient(userId, p, parentId) ==
    IF parentId # NoComment
    THEN IF comments[parentId].exists /\ comments[parentId].author # userId
         THEN comments[parentId].author ELSE NoUser
    ELSE IF posts[p].author # userId THEN posts[p].author ELSE NoUser

\* a notification typed without looking at parentId
CommentNotificationTypeOfPost(parentId) == "comment_post"

CommentNotificationType(parentId) ==
    IF parentId # NoComment THEN "reply_comment" ELSE "comment_post"

\* the emit made only for a recipient found in the registry
CommentNotificationEmitsIfOnline(recipient) ==
    IF recipient # NoUser /\ onlineUsers[recipient] # NoConn
    THEN <<ToRoom(recipient, "newNotification")>> ELSE <<>>

\* _handleCreateComment: the emit that follows notification.save()
CommentNotificationEmits(recipient) ==
    IF recipient # NoUser THEN <<ToRoom(recipient, "newNotification")>> ELSE <<>>

\* the trimmed content of a new comment
CommentText == "hi"

\* _handleCreateComment(postId, content, parentId, userId): the persisted
\* effect (notifOk = FALSE is a notification.save() that throws, which the
\* function catches); enabled when the post exists
HandleCreateComment(userId, p, parentId, notifOk) ==
    LET recipient == CommentRecipient(userId, p, parentId)
        withComment == [comments EXCEPT ![nextComment] =
                           [post |-> p, author |-> userId, parent |-> parentId,
                            repliesCount |-> 0, likes |-> <<>>,
                            isDeleted |-> FALSE, content |-> CommentText,
                            exists |-> TRUE]]
    IN
    /\ comments' = IF parentId # NoComment /\ comments[parentId].exists
                   THEN [withComment EXCEPT ![parentId].repliesCount = @ + 1]
                   ELSE withComment
    /\ nextComment' = nextComment + 1
    /\ notifications' =
          IF recipient # NoUser /\ notifOk
          THEN notifications \cup
                 {[recipientId |-> recipient, senderId |-> userId,
                   type |-> CommentNotificationType(parentId),
                   entityId |-> nextComment]}
          ELSE notifications

ParentArgs == {NoComment} \cup CommentIds

\* POST /api/comments (createComment); the request is validated before
CreateCommentRest(userId, p, parentId, notifOk) ==
    LET found == p \in Posts /\ posts[p].exists
        recipient == CommentRecipient(userId, p, parentId)
    IN
    /\ nextComment <= MaxComments
    /\ (found /\ recipient # NoUser) \/ notifOk
    /\ IF found
       THEN /\ HandleCreateComment(userId, p, parentId, notifOk)
            /\ emits' = IF notifOk THEN CommentNotificationEmits(recipient) ELSE <<>>
       ELSE /\ UNCHANGED <<comments, nextComment, notifications>>
            /\ emits' = <<>>
    /\ lastOp' = OpDb("createComment", NoConn, userId, p, found, notifOk)
    /\ UNCHANGED <<dbCommunity, posts, logs, follows>>
    /\ RestFrame

\* socket.on("createComment")
CreateCommentSocket(c, p, parentId, notifOk) ==
    LET userId == connUser[c]
        found == p \in Posts /\ posts[p].exists
        recipient == CommentRecipient(userId, p, parentId)
    IN
    /\ connState[c] = "live"
    /\ nextComment <= MaxComments
    /\ (found /\ recipient # NoUser) \/ notifOk
    /\ IF found
       THEN /\ HandleCreateComment(userId, p, parentId, notifOk)
            /\ emits' = (IF notifOk THEN CommentNotificationEmits(recipient) ELSE <<>>)
                        \o <<ToRoom(PostRoom(p), "newComment")>>
       ELSE /\ UNCHANGED <<comments, nextComment, notifications>>
            /\ emits' = <<ToSocket(c, "errorMessage")>>
    /\ lastOp' = OpDb("createComment", c, userId, p, found, notifOk)
    /\ UNCHANGED <<dbCommunity, posts, logs, follows>>
    /\ RestFrame

\* comment.likes.includes(userId)
Includes(likes, userId) == \E i \in 1..Len(likes) : likes[i] = userId

\* { $pull: { likes: userId } }
Pull(likes, userId) == SelectSeq(likes, LAMBDA l : l # userId)

\* { $addToSet: { likes: userId } }
AddToSet(likes, userId) ==
    IF Includes(likes, userId) THEN likes ELSE Append(likes, userId)

\* _handleToggleLike: the update chosen by isCurrentlyLiked
ToggledLikes(likes, userId) ==
    IF Includes(likes, userId) THEN Pull(likes, userId) ELSE AddToSet(likes, userId)

\* a notification made for every toggle by somebody else, unlikes included
ShouldNotifyOnAnyToggle(doc, userId) == doc.author # userId

\* _handleToggleLike: shouldNotifyCommentAuthor
ShouldNotifyCommentAuthor(doc, userId) ==
    ~Includes(doc.likes, userId) /\ doc.author # userId

\* the comment passed to toggleLike / deleteComment, as the text of its id
CommentKey(k) == ToString(k)

\* _handleToggleLike(commentId, userId): dbOk = FALSE is a database call on
\* the comment that throws, notifOk = FALSE a notification.save() that
\* throws and is caught
HandleToggleLike(userId, k, dbOk, notifOk) ==
    LET doc == comments[k]
        done == doc.exists /\ dbOk
        notify == done /\ ShouldNotifyCommentAuthor(doc, userId) /\ notifOk
    IN
    /\ comments' = IF done
                   THEN [comments EXCEPT ![k].likes = ToggledLikes(@, userId)]
                   ELSE comments
    /\ notifications' =
          IF notify
          THEN notifications \cup
                 {[recipientId |-> doc.author, senderId |-> userId,
                   type |-> "like_comment", entityId |-> k]}
          ELSE notifications

\* the newNotification of _handleToggleLike
LikeNotificationEmits(userId, k, dbOk, notifOk) ==
    IF /\ comments[k].exists /\ dbOk /\ notifOk
       /\ ShouldNotifyCommentAuthor(comments[k], userId)
    THEN <<ToRoom(comments[k].author, "newNotification")>> ELSE <<>>

\* PATCH /api/comments/:commentId/like (toggleLike)
ToggleLikeRest(userId, k, dbOk, notifOk) ==
    /\ HandleToggleLike(userId, k, dbOk, notifOk)
    /\ emits' = LikeNotificationEmits(userId, k, dbOk, notifOk)
    /\ lastOp' = OpDb("toggleLike", NoConn, userId, CommentKey(k),
                      comments[k].exists /\ dbOk, notifOk)
    /\ UNCHANGED <<dbCommunity, posts, logs, nextComment, follows>>
    /\ RestFrame

\* socket.on("toggleLikeComment")
ToggleLikeSocket(c, k, dbOk, notifOk) ==
    LET userId == connUser[c]
        ok == comments[k].exists /\ dbOk
    IN
    /\ connState[c] = "live"
    /\ HandleToggleLike(userId, k, dbOk, notifOk)
    /\ emits' = IF ok
                THEN LikeNotificationEmits(userId, k, dbOk, notifOk)
                     \o <<ToRoom(PostRoom(comments[k].post), "commentLikeUpdate")>>
                ELSE <<ToSocket(c, "errorMessage")>>
    /\ lastOp' = OpDb("toggleLike", c, userId, CommentKey(k), ok, notifOk)
    /\ UNCHANGED <<dbCommunity, posts, logs, nextComment, follows>>
    /\ RestFrame

\* a delete allowed to anybody
MayDeleteCommentAnyone(doc, userId) == doc.exists /\ ~doc.isDeleted

\* _handleDeleteComment: found, comment.authorId.equals(userId), not
\* isDeleted
MayDeleteComment(doc, userId) ==
    doc.exists /\ doc.author = userId /\ ~doc.isDeleted

\* _handleDeleteComment(commentId, userId): saveOk = FALSE is a
\* comment.save() that throws, parentOk = FALSE a throwing update of the
\* parent's repliesCount
HandleDeleteComment(userId, k, saveOk, parentOk) ==
    LET doc == comments[k]
        saved == MayDeleteComment(doc, userId) /\ saveOk
        marked == [comments EXCEPT ![k].isDeleted = TRUE,
                                   ![k].content = DeletedText]
    IN
    /\ comments' =
          IF ~saved THEN comments
          ELSE IF doc.parent # NoComment /\ parentOk /\ comments[doc.parent].exists
               THEN [marked EXCEPT ![doc.parent].repliesCount = @ - 1]
               ELSE marked

\* whether _handleDeleteComment returns instead of throwing
DeleteCommentOk(userId, k, saveOk, parentOk) ==
    /\ MayDeleteComment(comments[k], userId)
    /\ saveOk
    /\ comments[k].parent # NoComment => parentOk

\* DELETE /api/comments/:commentId (deleteComment)
DeleteCommentRest(userId, k, saveOk, parentOk) ==
    /\ parentOk \/ (MayDeleteComment(comments[k], userId) /\ saveOk
                    /\ comments[k].parent # NoComment)
    /\ HandleDeleteComment(userId, k, saveOk, parentOk)
    /\ emits' = <<>>
    /\ lastOp' = OpDb("deleteComment", NoConn, userId, CommentKey(k),
                      DeleteCommentOk(userId, k, saveOk, parentOk),
                      saveOk /\ parentOk)
    /\ UNCHANGED <<dbCommunity, posts, logs, nextComment, notifications, follows>>
    /\ RestFrame

\* socket.on("deleteComment")
DeleteCommentSocket(c, k, saveOk, parentOk) ==
    LET userId == connUser[c]
        ok == DeleteCommentOk(userId, k, saveOk, parentOk)
    IN
    /\ connState[c] = "live"
    /\ parentOk \/ (MayDeleteComment(comments[k], userId) /\ saveOk
                    /\ comments[k].parent # NoComment)
    /\ HandleDeleteComment(userId, k, saveOk, parentOk)
    /\ emits' = IF ok
                THEN <<ToRoom(PostRoom(comments[k].post), "commentDeleted")>>
                ELSE <<ToSocket(c, "errorMessage")>>
    /\ lastOp' = OpDb("deleteComment", c, userId, CommentKey(k), ok,
                      saveOk /\ parentOk)
    /\ UNCHANGED <<dbCommunity, posts, logs, nextComment, notifications, follows>>
    /\ RestFrame

\* followUser: what is emitted once the follow is stored
FollowEmits(followerId, followingId) ==
    <<ToRoom(followingId, "user:newFollower"),
      ToRoom(followerId, "user:followingStatusUpdate")>>

\* followUser
FollowUser(followerId, followingId) ==
    LET ok == /\ followerId # followingId
              /\ followingId \in Users
              /\ <<followerId, followingId>> \notin follows
    IN
    /\ follows' = IF ok THEN follows \cup {<<followerId, followingId>>} ELSE follows
    /\ emits' = IF ok THEN FollowEmits(followerId, followingId) ELSE <<>>
    /\ lastOp' = Op("followUser", NoConn, followerId, followingId, ok)
    /\ UNCHANGED <<dbCommunity, posts, logs, comments, nextComment, notifications>>
    /\ RestFrame

\* unfollowUser
UnfollowUser(followerId, followingId) ==
    LET ok == <<followerId, followingId>> \in follows IN
    /\ follows' = follows \ {<<followerId, followingId>>}
    /\ emits' = IF ok
                THEN <<ToRoom(followingId, "user:unfollowed"),
                       ToRoom(followerId, "user:followingStatusUpdate")>>
                ELSE <<>>
    /\ lastOp' = Op("unfollowUser", NoConn, followerId, followingId, ok)
    /\ UNCHANGED <<dbCommunity, posts, logs, comments, nextComment, notifications>>
    /\ RestFrame

\* ------------------------------------- moderation logs and decision flows
\* Community.findById(x) finds a document
CommunityExists(x) == x \in Communities /\ commStatus[x] # "none"

\* owners and moderators of the community document, none when it is absent
OwnersOf(x) == IF CommunityExists(x) THEN owners[x] ELSE {}
ModeratorsOf(x) == IF CommunityExists(x) THEN moderators[x] ELSE {}

\* isCommunityAdmin(userId, communityId)
IsCommunityAdmin(u, x) == u \in OwnersOf(x) \cup ModeratorsOf(x)

\* arguments of the log functions: "" is a missing action, BadId a
\* malformed id, NoCommunity a global action
LogActions == {"user_banned", ""}
ModeratorArgs == Users \cup {BadId}
LogCommunityArgs == Communities \cup {NoCommunity, NoSuchCommunity, BadId}

\* a validation that looks at the action only
LogDataValidActionOnly(x, moderatorId, action) == action # ""

\* the validation both log functions start with
LogDataValid(x, moderatorId, action) ==
    /\ IsValidId(moderatorId)
    /\ x # NoCommunity => IsValidId(x)
    /\ action # ""

\* createLogInternal(logData) called on its own; it returns the log (ok)
\* or null. For a global action the function throws after log.save(), at
\* the read of the unimported `User`, and its catch returns null.
CreateLogInternal(x, moderatorId, action, saveOk) ==
    LET valid == LogDataValid(x, moderatorId, action) IN
    /\ Len(logs) < MaxLogs
    /\ valid \/ saveOk
    /\ logs' = IF valid
               THEN CreateLogInternalLogs(LogEntry(x, moderatorId, action, "t"), saveOk)
               ELSE logs
    /\ emits' = IF valid /\ saveOk
                THEN CreateLogInternalEmits(x, onlineUsers,
                                            OwnersOf(x), ModeratorsOf(x))
                ELSE <<>>
    /\ lastOp' = OpDb("createLogInternal", NoConn, moderatorId, x,
                      valid /\ saveOk /\ x # NoCommunity, saveOk)
    /\ UNCHANGED <<dbCommunity, posts, comments, nextComment, notifications, follows>>
    /\ RestFrame

\* POST /api/moderation-logs (createLog) by the authenticated moderatorId
CreateLog(x, moderatorId, action, saveOk) ==
    LET valid == LogDataValid(x, moderatorId, action)
        permitted == x # NoCommunity => IsCommunityAdmin(moderatorId, x)
        ok == valid /\ permitted /\ saveOk
        targetRoom == IF x # NoCommunity THEN CommunityRoom(x) ELSE AdminDashboardLogs
    IN
    /\ Len(logs) < MaxLogs
    /\ (valid /\ permitted) \/ saveOk
    /\ logs' = IF valid /\ permitted
               THEN CreateLogInternalLogs(LogEntry(x, moderatorId, action, "t"), saveOk)
               ELSE logs
    /\ emits' = IF ok
                THEN <<ToRoom(targetRoom, "moderation:log:created")>>
                     \o BadgePushes(AdminAndModIds(OwnersOf(x), ModeratorsOf(x)),
                                    onlineUsers)
                ELSE <<>>
    /\ lastOp' = OpDb("createLog", NoConn, moderatorId, x, ok, saveOk)
    /\ UNCHANGED <<dbCommunity, posts, comments, nextComment, notifications, follows>>
    /\ RestFrame

\* the decision flows touch no socket, chat, post or comment state
DecisionFrame ==
    UNCHANGED <<sockets, dbChat, posts, logs, comments, nextComment,
                notifications, follows>>

\* requestMembership by userId for community x
RequestMembership(x, userId, saveOk) ==
    LET ok == /\ IsValidId(x)
              /\ CommunityExists(x)
              /\ userId \notin members[x]
              /\ requests[x][userId] # "pending"
        adminAndModIds == SeqOf(owners[x]) \o SeqOf(moderators[x])
    IN
    /\ ok \/ saveOk
    /\ requests' = IF ok /\ saveOk
                   THEN [requests EXCEPT ![x][userId] = "pending"]
                   ELSE requests
    /\ emits' = IF ok /\ saveOk
                THEN <<ToRoom(CommunityRoom(x), "membership:request:new")>>
                     \o [i \in 1..Len(adminAndModIds) |->
                            ToRoom(UserRoom(adminAndModIds[i]), "notification:count:update")]
                ELSE <<>>
    /\ lastOp' = OpDb("requestMembership", NoConn, userId, x, ok /\ saveOk, saveOk)
    /\ UNCHANGED <<dbCommunity, invitations>>
    /\ DecisionFrame

\* sendInvitation by senderId: after invitation.save() the payload of
\* invitation:sent reads `community`, which the function never declares;
\* the throw is caught and answered with a 500, nothing is emitted
SendInvitation(x, senderId, invitedUserId, saveOk) ==
    LET mayInvite == /\ IsValidId(x) /\ IsValidId(invitedUserId)
                     /\ IsCommunityAdmin(senderId, x)
                     /\ invitedUserId # senderId
                     /\ invitations[x][invitedUserId].status \notin {"pending", "accepted"}
    IN
    /\ mayInvite \/ saveOk
    /\ invitations' = IF mayInvite /\ saveOk
                      THEN [invitations EXCEPT ![x][invitedUserId] =
                               [status |-> "pending", invitedBy |-> senderId]]
                      ELSE invitations
    /\ emits' = <<>>
    /\ lastOp' = OpDb("sendInvitation", NoConn, senderId, x, FALSE, saveOk)
    /\ UNCHANGED <<dbCommunity, requests>>
    /\ DecisionFrame

\* what a decision emits: the event and a badge push to one user's room,
\* then the log event to every socket
DecisionEmits(userId, name) ==
    <<ToRoom(UserRoom(userId), name),
      ToRoom(UserRoom(userId), "notification:count:update"),
      ToAll("moderation:log:created", {})>>

\* the event name of a decision
DecisionEvent(action) ==
    CASE action = "approve" -> "membership:request:approved"
      [] action = "reject"  -> "membership:request:rejected"
      [] action = "accept"  -> "invitation:accepted"
      [] OTHER              -> "invitation:declined"

\* reviewMembershipRequest by reviewerId of the request of userId for x.
\* Approving a user who is not yet a member saves the community and then
\* reads `onlineUsers`, which the module never declares: the throw is
\* caught and answered with a 500 before anything is emitted or the
\* request saved (commSaveOk, saveOk = FALSE: that save throws).
ReviewMembershipRequest(x, userId, reviewerId, action, commSaveOk, saveOk) ==
    LET reached == /\ action \in {"approve", "reject"}
                   /\ requests[x][userId] # "none"
                   /\ CommunityExists(x)
                   /\ IsCommunityAdmin(reviewerId, x)
                   /\ requests[x][userId] = "pending"
        adds == reached /\ action = "approve" /\ userId \notin members[x]
        emitted == reached /\ ~adds
    IN
    /\ adds \/ commSaveOk
    /\ emitted \/ saveOk
    /\ members' = IF adds /\ commSaveOk
                  THEN [members EXCEPT ![x] = @ \cup {userId}]
                  ELSE members
    /\ emits' = IF emitted THEN DecisionEmits(userId, DecisionEvent(action)) ELSE <<>>
    /\ requests' = IF emitted /\ saveOk
                   THEN [requests EXCEPT ![x][userId] =
                            IF action = "approve" THEN "approved" ELSE "rejected"]
                   ELSE requests
    /\ lastOp' = OpDb("reviewMembershipRequest", NoConn, reviewerId, x,
                      emitted /\ saveOk, commSaveOk /\ saveOk)
    /\ UNCHANGED <<owners, moderators, commStatus, invitations>>
    /\ DecisionFrame

\* respondToInvitation by userId to the invitation of invitedUserId to x
RespondToInvitation(x, invitedUserId, userId, action, commSaveOk, saveOk) ==
    LET invitation == invitations[x][invitedUserId]
        reached == /\ action \in {"accept", "decline"}
                   /\ invitation.status # "none"
                   /\ invitedUserId = userId
                   /\ invitation.status = "pending"
        adds == reached /\ action = "accept" /\ userId \notin members[x]
        emitted == reached /\ ~adds
    IN
    /\ adds \/ commSaveOk
    /\ emitted \/ saveOk
    /\ members' = IF adds /\ commSaveOk
                  THEN [members EXCEPT ![x] = @ \cup {userId}]
                  ELSE members
    /\ emits' = IF emitted
                THEN DecisionEmits(invitation.invitedBy, DecisionEvent(action))
                ELSE <<>>
    /\ invitations' = IF emitted /\ saveOk
                      THEN [invitations EXCEPT ![x][invitedUserId].status =
                               IF action = "accept" THEN "accepted" ELSE "declined"]
                      ELSE invitations
    /\ lastOp' = OpDb("respondToInvitation", NoConn, userId, x,
                      emitted /\ saveOk, commSaveOk /\ saveOk)
    /\ UNCHANGED <<owners, moderators, commStatus, requests>>
    /\ DecisionFrame

\* ------------------------------------------------------------ handshake
\* credentials a client may present: no token, a token that fails
\* jwt.verify, a verified token that carries no user id, and the token of
\* a user (written as that user's id)
NoToken == "none"
ForgedToken == "forged"
AnonToken == "anon"
BadTokens == {NoToken, ForgedToken, AnonToken}

\* socketAuth: next() is called without an error
SocketAuth(token) == token \notin {NoToken, ForgedToken}

\* a decoding that names some user whatever the token carries
UserIdOfAny(token) == IF token \in Users THEN token ELSE "u"

\* socket.user?.userId || socket.user?.id || socket.user?._id
UserIdOf(token) == IF token \in Users THEN token ELSE NoUser

\* a connection attempt: socketAuth, then the connection handler, which
\* disconnects a socket without a user id before it joins or registers
Handshake(c, token) ==
    IF SocketAuth(token) /\ UserIdOf(token) # NoUser
    THEN Connect(c, UserIdOf(token))
    ELSE /\ connState[c] = "idle"
         /\ connState' = [connState EXCEPT ![c] = "closed"]
         /\ emits' = <<>>
         /\ lastOp' = Op("handshake", c, NoUser, token, FALSE)
         /\ UNCHANGED <<connUser, rooms, onlineUsers, dbCommunity, dbChat, dbContent>>

\* ------------------------------------------------ polls, step by step
\* option labels a client may send: the labels of the poll and another one
OptionArgs == Options \cup {"maybe"}

\* castPollVote up to poll.save(): Post.findById has answered, a user in
\* votedUsers is answered with 400 and an unknown label with 404; the
\* handler holds options[i].votes + 1 computed from the document it loaded
CastPollVoteReads(userId, optionLabel) ==
    LET voted == Includes(poll.votedUsers, userId)
        ok == ~voted /\ optionLabel \in Options
    IN
    /\ Len(calls) < MaxCalls
    /\ calls' = IF ok
                THEN Append(calls, [kind |-> "castPollVote", user |-> userId,
                                    option |-> optionLabel,
                                    votes |-> poll.votes[optionLabel] + 1])
                ELSE calls
    /\ emits' = <<>>
    /\ lastOp' = Op(IF ok THEN "castPollVote:read" ELSE "castPollVote",
                    NoConn, userId, optionLabel, ok)
    /\ UNCHANGED <<sockets, dbCommunity, dbContent, participants, messages,
                   nextMsg, handlers, suspendedData>>

\* castPollVote from poll.save() on: the save sets the vote count the
\* handler computed and pushes the user; saveOk = FALSE is a save that
\* throws
CastPollVoteSaves(i, saveOk) ==
    /\ i \in 1..Len(calls)
    /\ calls[i].kind = "castPollVote"
    /\ poll' = IF saveOk
               THEN [votes |-> [poll.votes EXCEPT ![calls[i].option] = calls[i].votes],
                     votedUsers |-> Append(poll.votedUsers, calls[i].user)]
               ELSE poll
    /\ emits' = IF saveOk THEN <<ToRoom(GetPostTargetRoom(NoCommunity), "pollVoteUpdated")>> ELSE <<>>
    /\ lastOp' = Op("castPollVote", NoConn, calls[i].user, calls[i].option, saveOk)
    /\ calls' = RemoveAt(calls, i)
    /\ UNCHANGED <<sockets, dbCommunity, dbContent, participants, messages,
                   nextMsg, handlers, memberList, membersCount, reactions>>

\* ---------------------------------------------- new members, step by step
\* how the handler reached the add: reviewMembershipRequest(approve) or
\* respondToInvitation(accept)
AddMemberVias == {"request", "invitation"}

\* reviewMembershipRequest(approve) / respondToInvitation(accept) up to
\* community.save(): the request or invitation is pending, the loaded
\* members do not hold the user, the user is pushed and membersCount set
\* to (stats.membersCount || 0) + 1 in memory. The query selects "members
\* owners moderators name": statsLoaded = FALSE is a loaded document
\* without stats, TRUE one that carries the stored count all the same.
AddMemberReads(x, userId, via, statsLoaded) ==
    /\ Len(calls) < MaxCalls
    /\ IF via = "request"
       THEN requests[x][userId] = "pending"
       ELSE invitations[x][userId].status = "pending"
    /\ ~Includes(memberList[x], userId)
    /\ membersCount[x] = 0 => statsLoaded
    /\ calls' = Append(calls, [kind |-> "addMember", community |-> x,
                               user |-> userId, via |-> via,
                               count |-> (IF statsLoaded THEN membersCount[x]
                                          ELSE 0) + 1])
    /\ emits' = <<>>
    /\ lastOp' = Op("addMember:read", NoConn, userId, x, TRUE)
    /\ UNCHANGED <<sockets, dbCommunity, dbContent, participants, messages,
                   nextMsg, handlers, suspendedData>>

\* the same handlers from community.save() on: the push and the count held
\* by the handler are written; the handler then reads the undeclared
\* `onlineUsers`, so nothing is emitted and the request or invitation
\* stays pending. saveOk = FALSE is a save that throws.
AddMemberSaves(i, saveOk) ==
    /\ i \in 1..Len(calls)
    /\ calls[i].kind = "addMember"
    /\ LET x == calls[i].community
           u == calls[i].user
       IN /\ memberList' = IF saveOk
                           THEN [memberList EXCEPT ![x] = Append(@, u)]
                           ELSE memberList
          /\ members' = IF saveOk THEN [members EXCEPT ![x] = @ \cup {u}]
                        ELSE members
          /\ membersCount' = IF saveOk
                             THEN [membersCount EXCEPT ![x] = calls[i].count]
                             ELSE membersCount
          /\ lastOp' = OpDb(IF calls[i].via = "request"
                            THEN "reviewMembershipRequest"
                            ELSE "respondToInvitation",
                            NoConn, u, x, FALSE, saveOk)
    /\ emits' = <<>>
    /\ calls' = RemoveAt(calls, i)
    /\ UNCHANGED <<sockets, owners, moderators, commStatus, dbContent,
                   participants, messages, nextMsg, handlers, poll, reactions>>

\* ------------------------------------------ comment deletion, step by step
\* a comment or a reply to a comment created before it, over REST
CreateCommentOrReply(userId, parentId) ==
    /\ parentId < nextComment
    /\ CreateCommentRest(userId, "pg", parentId, TRUE)

\* _handleDeleteComment up to comment.save(): Comment.findById has
\* answered and the three guards ran on the loaded document; a refused
\* delete is answered at once
DeleteCommentReads(userId, k) ==
    LET ok == MayDeleteComment(comments[k], userId) IN
    /\ Len(calls) < MaxCalls
    /\ calls' = IF ok
                THEN Append(calls, [kind |-> "deleteComment", user |-> userId,
                                    comment |-> k])
                ELSE calls
    /\ emits' = <<>>
    /\ lastOp' = Op(IF ok THEN "deleteComment:read" ELSE "deleteComment",
                    NoConn, userId, CommentKey(k), ok)
    /\ UNCHANGED <<sockets, dbCommunity, dbContent, participants, messages,
                   nextMsg, handlers, suspendedData>>

\* _handleDeleteComment from comment.save() on: the loaded document is
\* saved as deleted and the parent's repliesCount is decremented; saveOk =
\* FALSE is a save that throws
DeleteCommentSaves(i, saveOk) ==
    /\ i \in 1..Len(calls)
    /\ calls[i].kind = "deleteComment"
    /\ LET k == calls[i].comment
           parent == comments[k].parent
           marked == [comments EXCEPT ![k].isDeleted = TRUE,
                                      ![k].content = DeletedText]
       IN /\ comments' =
                IF ~saveOk THEN comments
                ELSE IF parent # NoComment /\ comments[parent].exists
                     THEN [marked EXCEPT ![parent].repliesCount = @ - 1]
                     ELSE marked
          /\ lastOp' = Op("deleteComment", NoConn, calls[i].user,
                          CommentKey(k), saveOk)
    /\ emits' = <<>>
    /\ calls' = RemoveAt(calls, i)
    /\ UNCHANGED <<sockets, dbCommunity, posts, logs, nextComment, notifications,
                   follows, dbDecisions, participants, messages, nextMsg,
                   handlers, suspendedData>>

\* ------------------------------- message edits and deletes, step by step
\* editMessage up to message.save(): Message.findById has answered; a
\* missing or deleted message ends the handler, somebody else's message is
\* answered with errorMessage
EditMessageReads(c, m, text) ==
    LET u == connUser[c]
        found == messages[m].exists /\ ~messages[m].isDeleted
        ok == found /\ MayChangeMessage(m, u)
    IN
    /\ connState[c] = "live"
    /\ Len(calls) < MaxCalls
    /\ calls' = IF ok
                THEN Append(calls, [kind |-> "editMessage", conn |-> c,
                                    user |-> u, message |-> m,
                                    text |-> Trim(text)])
                ELSE calls
    /\ emits' = IF found /\ ~ok THEN <<ToSocket(c, "errorMessage")>> ELSE <<>>
    /\ lastOp' = Op(IF ok THEN "editMessage:read" ELSE "editMessage",
                    c, u, ToString(m), ok)
    /\ UNCHANGED <<sockets, dbCommunity, dbContent, participants, messages,
                   nextMsg, handlers, suspendedData>>

\* editMessage from message.save() on: the save writes the paths the
\* handler modified, text and isEdited; a text the schema refuses throws
EditMessageSaves(i) ==
    /\ i \in 1..Len(calls)
    /\ calls[i].kind = "editMessage"
    /\ LET m == calls[i].message
           ok == TextValid(calls[i].text)
       IN /\ messages' = IF ok THEN [messages EXCEPT ![m].text = calls[i].text]
                         ELSE messages
          /\ emits' = IF ok THEN <<ToRoom(messages[m].conv, "messageEdited")>>
                      ELSE <<>>
          /\ lastOp' = Op("editMessage", calls[i].conn, calls[i].user,
                          ToString(m), ok)
    /\ calls' = RemoveAt(calls, i)
    /\ UNCHANGED <<sockets, dbCommunity, dbContent, participants, nextMsg,
                   handlers, suspendedData>>

\* deleteMessage up to message.save()
DeleteMessageReads(c, m) ==
    LET u == connUser[c]
        found == messages[m].exists /\ ~messages[m].isDeleted
        ok == found /\ MayChangeMessage(m, u)
    IN
    /\ connState[c] = "live"
    /\ Len(calls) < MaxCalls
    /\ calls' = IF ok
                THEN Append(calls, [kind |-> "deleteMessage", conn |-> c,
                                    user |-> u, message |-> m])
                ELSE calls
    /\ emits' = IF found /\ ~ok THEN <<ToSocket(c, "errorMessage")>> ELSE <<>>
    /\ lastOp' = Op(IF ok THEN "deleteMessage:read" ELSE "deleteMessage",
                    c, u, ToString(m), ok)
    /\ UNCHANGED <<sockets, dbCommunity, dbContent, participants, messages,
                   nextMsg, handlers, suspendedData>>

\* deleteMessage from message.save() on: isDeleted, the placeholder text
\* and the emptied attachments are written
DeleteMessageSaves(i) ==
    /\ i \in 1..Len(calls)
    /\ calls[i].kind = "deleteMessage"
    /\ LET m == calls[i].message
       IN /\ messages' = [messages EXCEPT ![m].isDeleted = TRUE,
                                          ![m].text = DeletedText,
                                          ![m].attachments = {}]
          /\ emits' = <<ToRoom(messages[m].conv, "messageDeleted")>>
          /\ lastOp' = Op("deleteMessage", calls[i].conn, calls[i].user,
                          ToString(m), TRUE)
    /\ calls' = RemoveAt(calls, i)
    /\ UNCHANGED <<sockets, dbCommunity, dbContent, participants, nextMsg,
                   handlers, suspendedData>>

\* ------------------------------------- likes and dislikes, step by step
\* the post whose likes and dislikes `reactions` holds
ReactedPost == "pg"

\* the two arrays an updatePost request can carry a list for
ReactionFields == {"likes", "dislikes"}

\* the array a like or dislike pulls the user from
OtherReaction(field) == IF field = "likes" THEN "dislikes" ELSE "likes"

\* an update that adds the user to one array and leaves the other alone
ReactionUpdateKeepingOther(field, isTarget, isCurrent) ==
    IF isTarget /\ ~isCurrent
    THEN [addToSet |-> {field}, pull |-> {}]
    ELSE IF ~isTarget /\ isCurrent
    THEN [addToSet |-> {}, pull |-> {field}]
    ELSE [addToSet |-> {}, pull |-> {}]

\* updatePost: the $addToSet and $pull of the update query, decided from
\* the list of the request and the document that was read
ReactionUpdate(field, isTarget, isCurrent) ==
    IF isTarget /\ ~isCurrent
    THEN [addToSet |-> {field}, pull |-> {OtherReaction(field)}]
    ELSE IF ~isTarget /\ isCurrent
    THEN [addToSet |-> {}, pull |-> {field}]
    ELSE [addToSet |-> {}, pull |-> {}]

\* Post.findByIdAndUpdate(id, updateQuery): one atomic update of the
\* stored arrays
ApplyReactionUpdate(r, query, userId) ==
    [f \in ReactionFields |->
        IF f \in query.addToSet THEN AddToSet(r[f], userId)
        ELSE IF f \in query.pull THEN Pull(r[f], userId)
        ELSE r[f]]

\* updatePost with a likes or a dislikes list, up to
\* Post.findByIdAndUpdate: the post is read, the update query is built
\* from it, a like by somebody else than the author is notified; an empty
\* query answers with the post that was read
UpdatePostReads(userId, field, isTarget, notifOk) ==
    LET post == posts[ReactedPost]
        query == ReactionUpdate(field, isTarget, Includes(reactions[field], userId))
        pending == post.exists /\ query # ReactionUpdate(field, FALSE, FALSE)
        notify == /\ post.exists /\ field = "likes" /\ query.addToSet # {}
                  /\ post.author # userId /\ notifOk
    IN
    /\ Len(calls) < MaxCalls
    /\ calls' = IF pending
                THEN Append(calls, [kind |-> "updatePost", user |-> userId,
                                    field |-> field, query |-> query])
                ELSE calls
    /\ notifications' =
          IF notify
          THEN notifications \cup
                 {[recipientId |-> post.author, senderId |-> userId,
                   type |-> "like_post", entityId |-> ReactedPost]}
          ELSE notifications
    /\ emits' = IF notify
                THEN <<ToRoom(UserRoom(post.author), "newNotification"),
                       ToRoom(UserRoom(post.author), "notification:count:update")>>
                ELSE <<>>
    /\ lastOp' = Op(IF pending THEN "updatePost:read" ELSE "updatePost",
                    NoConn, userId, field, post.exists)
    /\ UNCHANGED <<sockets, dbCommunity, posts, logs, comments, nextComment,
                   follows, dbDecisions, participants, messages, nextMsg,
                   handlers, suspendedData>>

\* updatePost from Post.findByIdAndUpdate on: the query is applied to the
\* stored post and postUpdated goes to the room of the post
UpdatePostWrites(i) ==
    /\ i \in 1..Len(calls)
    /\ calls[i].kind = "updatePost"
    /\ reactions' = ApplyReactionUpdate(reactions, calls[i].query, calls[i].user)
    /\ emits' = <<ToRoom(GetPostTargetRoom(posts[ReactedPost].community),
                         "postUpdated")>>
    /\ lastOp' = Op("updatePost", NoConn, calls[i].user, calls[i].field, TRUE)
    /\ calls' = RemoveAt(calls, i)
    /\ UNCHANGED <<sockets, dbCommunity, dbContent, participants, messages,
                   nextMsg, handlers, poll, memberList, membersCount>>

\* -------------------------------------------------------- specifications
NextPresence ==
    \/ \E c \in Conns, u \in Users : Connect(c, u)
    \/ \E c \in Conns, found \in BOOLEAN : LookupDone(c, found)
    \/ \E c \in Conns : Disconnect(c)

\* connects and disconnects over a fixed set of communities
Spec == Init /\ [][NextPresence]_vars

\* the sockets of the room specification
RoomSockets == {1}

InitRooms ==
    /\ InitSockets /\ InitChat /\ InitPosts
    /\ members \in [Communities -> SUBSET {"u"}]
    /\ owners \in [Communities -> SUBSET {"u"}]
    /\ moderators \in [Communities -> SUBSET {"u"}]
    /\ commStatus \in [Communities -> {"pending", "approved"}]

NextRooms ==
    \/ \E c \in RoomSockets, u \in Users : Connect(c, u)
    \/ \E c \in RoomSockets, found \in BOOLEAN : LookupDone(c, found)
    \/ \E c \in RoomSockets : Disconnect(c)
    \/ \E c \in RoomSockets, r \in Rooms : JoinRoom(c, r)
    \/ \E c \in RoomSockets, r \in Rooms : LeaveRoom(c, r)
    \/ \E c \in RoomSockets : JoinGlobalFeedRoom(c)
    \/ \E c \in RoomSockets : LeaveGlobalFeedRoom(c)
    \/ \E c \in RoomSockets, x \in CommunityArgs, dbOk \in BOOLEAN :
            JoinCommunityFeedRoom(c, x, dbOk)
    \/ \E c \in RoomSockets, x \in CommunityArgs, dbOk \in BOOLEAN :
            JoinCommunityRoom(c, x, dbOk)
    \/ \E c \in RoomSockets, x \in Communities : LeaveCommunityFeedRoom(c, x)
    \/ \E c \in RoomSockets, x \in Communities : LeaveCommunityRoom(c, x)
    \/ \E c \in RoomSockets : JoinAdminApprovalRoom(c)
    \/ \E c \in RoomSockets, id \in Users : UserOnline(c, id)
    \/ \E x \in Communities, u \in Users : RemoveFromCommunity(x, u)

\* one socket sending room events while community membership changes
SpecRooms == InitRooms /\ [][NextRooms]_vars

\* the sockets of the chat specification
ChatSockets == {1, 2}

InitChatSpec ==
    /\ InitSockets /\ InitChat /\ InitPosts
    /\ members = [x \in Communities |-> {}]
    /\ owners = [x \in Communities |-> {}]
    /\ moderators = [x \in Communities |-> {}]
    /\ commStatus = [x \in Communities |-> "approved"]

NextChat ==
    \/ \E c \in ChatSockets, u \in Users : Connect(c, u)
    \/ \E c \in ChatSockets : LookupDone(c, TRUE)
    \/ \E c \in ChatSockets, ct \in ConversationTypes, k \in ConvArgs,
          t \in Texts, att \in {{}, {"f"}},
          dbOk \in BOOLEAN, saveOk \in BOOLEAN, laterOk \in BOOLEAN :
            SendMessage(c, ct, k, t, att, dbOk, saveOk, laterOk)
    \/ \E c \in ChatSockets, m \in MsgArgs, t \in Texts, dbOk \in BOOLEAN :
            EditMessage(c, m, t, dbOk)
    \/ \E c \in ChatSockets, m \in MsgArgs, dbOk \in BOOLEAN :
            DeleteMessage(c, m, dbOk)
    \/ \E k \in Convs, ps \in SUBSET Users : UpdateGroupDiscussion(k, ps)

\* two sockets chatting in one group discussion whose participants change
SpecChat == InitChatSpec /\ [][NextChat]_vars

\* the sockets of the fan-out specifications
FanSockets == {1}

\* no community yet, or an approved community X owned by u
InitFan ==
    /\ InitSockets /\ InitChat /\ InitPosts
    /\ \/ /\ commStatus = [x \in Communities |-> "none"]
          /\ members = [x \in Communities |-> {}]
          /\ owners = [x \in Communities |-> {}]
          /\ moderators = [x \in Communities |-> {}]
       \/ /\ commStatus = [x \in Communities |-> "approved"]
          /\ members \in [Communities -> {{"u"}, {"a", "u"}}]
          /\ owners = [x \in Communities |-> {"u"}]
          /\ moderators \in [Communities -> {{}, {"a"}}]

NextFan ==
    \/ \E c \in FanSockets, u \in Users : Connect(c, u)
    \/ \E c \in FanSockets : LookupDone(c, TRUE)
    \/ \E c \in FanSockets : Disconnect(c)
    \/ \E c \in FanSockets, id \in Users : UserOnline(c, id)
    \/ \E c \in FanSockets : JoinGlobalFeedRoom(c)
    \/ \E x \in Communities, u \in Users, logOk \in BOOLEAN :
            CreateCommunity(x, u, logOk)
    \/ \E x \in Communities, a \in Users, act \in {"approve", "reject"},
          cr \in Users, logOk \in BOOLEAN :
            ReviewCommunity(x, a, act, cr, logOk)
    \/ \E p \in Posts, u \in Users : CreatePost(p, u)
    \/ \E p \in Posts, u \in Users, logOk \in BOOLEAN : DeletePost(p, u, logOk)

\* REST requests fanning out to connected sockets
SpecFan == InitFan /\ [][NextFan]_vars

\* the sockets of the notification specification
NotifySockets == {1}

\* a global post of either user is there to be commented on
InitNotify ==
    /\ InitSockets /\ InitChat
    /\ \E au \in Users :
          posts = [p \in Posts |->
                     IF p = "pg"
                     THEN [author |-> au, community |-> NoCommunity, exists |-> TRUE]
                     ELSE NoPost]
    /\ logs = <<>>
    /\ comments = [k \in CommentIds |-> NoCommentDoc]
    /\ nextComment = 1
    /\ notifications = {}
    /\ follows = {}
    /\ InitDecisions
    /\ members = [x \in Communities |-> {}]
    /\ owners = [x \in Communities |-> {}]
    /\ moderators = [x \in Communities |-> {}]
    /\ commStatus = [x \in Communities |-> "none"]

NextNotify ==
    \/ \E c \in NotifySockets, u \in Users : Connect(c, u)
    \/ \E c \in NotifySockets : LookupDone(c, TRUE)
    \/ \E c \in NotifySockets : Disconnect(c)
    \/ \E u \in Users, p \in PostArgs, par \in ParentArgs, notifOk \in BOOLEAN :
            CreateCommentRest(u, p, par, notifOk)
    \/ \E c \in NotifySockets, p \in PostArgs, par \in ParentArgs, notifOk \in BOOLEAN :
            CreateCommentSocket(c, p, par, notifOk)
    \/ \E f \in Users, g \in Users \cup {NoSuchUser} : FollowUser(f, g)
    \/ \E f \in Users, g \in Users : UnfollowUser(f, g)

\* comments and follows notifying users who may be offline
SpecNotify == InitNotify /\ [][NextNotify]_vars

\* the sockets of the comment specification
CommentSockets == {1}

\* a post with a comment and a reply to it, written by any users
InitComments ==
    /\ InitSockets /\ InitChat
    /\ posts = [p \in Posts |->
                  IF p = "pg"
                  THEN [author |-> "a", community |-> NoCommunity, exists |-> TRUE]
                  ELSE NoPost]
    /\ logs = <<>>
    /\ \E b \in Users, r \in Users :
          comments = [k \in CommentIds |->
                        IF k = 1
                        THEN [post |-> "pg", author |-> b, parent |-> NoComment,
                              repliesCount |-> 1, likes |-> <<>>,
                              isDeleted |-> FALSE, content |-> CommentText,
                              exists |-> TRUE]
                        ELSE IF k = 2
                        THEN [post |-> "pg", author |-> r, parent |-> 1,
                              repliesCount |-> 0, likes |-> <<>>,
                              isDeleted |-> FALSE, content |-> CommentText,
                              exists |-> TRUE]
                        ELSE NoCommentDoc]
    /\ nextComment = 3
    /\ notifications = {}
    /\ follows = {}
    /\ InitDecisions
    /\ members = [x \in Communities |-> {}]
    /\ owners = [x \in Communities |-> {}]
    /\ moderators = [x \in Communities |-> {}]
    /\ commStatus = [x \in Communities |-> "none"]

\* comments liked and deleted over REST and over one socket
NextComments ==
    \/ \E c \in CommentSockets, u \in Users : Connect(c, u)
    \/ \E c \in CommentSockets : LookupDone(c, TRUE)
    \/ \E u \in Users, k \in CommentIds, dbOk \in BOOLEAN, notifOk \in BOOLEAN :
            ToggleLikeRest(u, k, dbOk, notifOk)
    \/ \E c \in CommentSockets, k \in CommentIds, dbOk \in BOOLEAN,
          notifOk \in BOOLEAN : ToggleLikeSocket(c, k, dbOk, notifOk)
    \/ \E u \in Users, k \in CommentIds, saveOk \in BOOLEAN, parentOk \in BOOLEAN :
            DeleteCommentRest(u, k, saveOk, parentOk)
    \/ \E c \in CommentSockets, k \in CommentIds, saveOk \in BOOLEAN,
          parentOk \in BOOLEAN : DeleteCommentSocket(c, k, saveOk, parentOk)

SpecComments == InitComments /\ [][NextComments]_vars

\* the sockets and the rooms of the join/leave specification
JoinLeaveSockets == {1, 2}
JoinLeaveRooms == {"k", "u"}

\* two sockets subscribing to and unsubscribing from rooms
NextJoinLeave ==
    \/ \E c \in JoinLeaveSockets, u \in Users : Connect(c, u)
    \/ \E c \in JoinLeaveSockets : LookupDone(c, TRUE)
    \/ \E c \in JoinLeaveSockets : Disconnect(c)
    \/ \E c \in JoinLeaveSockets, r \in JoinLeaveRooms : JoinRoom(c, r)
    \/ \E c \in JoinLeaveSockets, r \in JoinLeaveRooms : LeaveRoom(c, r)
    \/ \E c \in JoinLeaveSockets : JoinGlobalFeedRoom(c)
    \/ \E c \in JoinLeaveSockets : LeaveGlobalFeedRoom(c)
    \/ \E c \in JoinLeaveSockets : JoinPostRoom(c, "pg")
    \/ \E c \in JoinLeaveSockets : LeavePostRoom(c, "pg")

SpecJoinLeave == InitChatSpec /\ [][NextJoinLeave]_vars

\* ------------------------------------------------------------------ C1
\* C1: a user id is a key of onlineUsers iff at least one live connection
\* authenticated as that user exists.
C1_RegistryIffLive ==
    \A u \in Users :
        (onlineUsers[u] # NoConn) <=> (\E c \in Conns : Live(c) /\ connUser[c] = u)

\* ------------------------------------------------------------------ C2
\* C2: every connection in admin:approvals or admin:dashboard_logs has
\* role admin.
C2_AdminRoomsOnlyAdmins ==
    \A c \in Conns :
        (Live(c) /\ rooms[c] \cap {AdminApprovals, AdminDashboardLogs} # {})
            => RoleOf(connUser[c]) = "admin"

\* ------------------------------------------------------------------ C3
HasCommunityRole(u, x) == u \in members[x] \cup owners[x] \cup moderators[x]

\* C3: joinCommunityRoom{X} and joinCommunityFeedRoom{X} add the
\* connection to community:X exactly when the user is a member, an owner
\* or a moderator of X at the time of the check, and otherwise send one
\* errorMessage to the requesting connection and leave its rooms unchanged.
C3_BothJoinsAcceptMemberOwnerModerator ==
    [][\A c \in Conns, x \in Communities :
          /\ JoinCommunityRoom(c, x, TRUE) =>
                IF HasCommunityRole(connUser[c], x)
                THEN rooms'[c] = rooms[c] \cup {CommunityRoom(x)}
                ELSE rooms' = rooms /\ emits' = <<ToSocket(c, "errorMessage")>>
          /\ JoinCommunityFeedRoom(c, x, TRUE) =>
                IF HasCommunityRole(connUser[c], x)
                THEN rooms'[c] = rooms[c] \cup {CommunityRoom(x)}
                ELSE rooms' = rooms /\ emits' = <<ToSocket(c, "errorMessage")>>
      ]_vars

\* ------------------------------------------------------------------ C4
\* C4: a joinCommunityFeedRoom{X} from a user who has no place in
\* community X when the event is handled is rejected: one errorMessage to
\* the sender and no change of room membership, whatever rooms the
\* connection joined at its handshake or by an earlier join.
C4_FeedJoinRechecked ==
    [][\A c \in Conns, x \in Communities, dbOk \in BOOLEAN :
          (JoinCommunityFeedRoom(c, x, dbOk) /\ ~HasCommunityRole(connUser[c], x))
              => (rooms' = rooms /\ emits' = <<ToSocket(c, "errorMessage")>>)
      ]_vars

\* a connection that was joined to community:X while its user belonged to
\* X has its next joinCommunityFeedRoom{X} rejected after the removal
C4_Witness ==
    /\ lastOp.op = "joinCommunityFeedRoom"
    /\ lastOp.arg = "X"
    /\ lastOp.db
    /\ ~lastOp.ok
    /\ ~HasCommunityRole(lastOp.user, "X")
    /\ CommunityRoom("X") \in rooms[lastOp.conn]
    /\ emits = <<ToSocket(lastOp.conn, "errorMessage")>>

\* ------------------------------------------------------------------ C5
\* C5: a sendMessage from a user who is not in the conversation's current
\* participant list persists no message, emits no newMessage and sends
\* exactly one errorMessage, to the sending connection only.
C5_SendByNonParticipantRejected ==
    [][(/\ lastOp'.op = "sendMessage"
        /\ ~(lastOp'.arg \in Convs /\ lastOp'.user \in participants[lastOp'.arg]))
           => /\ messages' = messages
              /\ nextMsg' = nextMsg
              /\ emits' = <<ToSocket(lastOp'.conn, "errorMessage")>>
      ]_vars

\* a user who sent a message while a participant is refused after having
\* been dropped from the participants
C5_Witness ==
    /\ lastOp.op = "sendMessage"
    /\ lastOp.arg \in Convs
    /\ lastOp.db
    /\ ~lastOp.ok
    /\ lastOp.user \notin participants[lastOp.arg]
    /\ \E m \in MsgIds : messages[m].exists /\ messages[m].author = lastOp.user
    /\ emits = <<ToSocket(lastOp.conn, "errorMessage")>>

\* ------------------------------------------------------------------ C6
\* C6: editMessage and deleteMessage by a user who is not in the current
\* participant list of the message's conversation are rejected with an
\* errorMessage to the sender only; the message is unchanged and nothing
\* is broadcast, even for a message the user authored.
C6_EditDeleteNeedParticipant ==
    [][\A c \in Conns, m \in MsgIds :
          (/\ messages[m].exists /\ ~messages[m].isDeleted
           /\ connUser[c] \notin participants[messages[m].conv])
              => /\ \A t \in Texts :
                      EditMessage(c, m, t, TRUE) =>
                          /\ messages' = messages
                          /\ emits' = <<ToSocket(c, "errorMessage")>>
                 /\ DeleteMessage(c, m, TRUE) =>
                          /\ messages' = messages
                          /\ emits' = <<ToSocket(c, "errorMessage")>>
      ]_vars

\* ------------------------------------------------------------------ C7
\* the rooms that carry the pushes of user u
PersonalRoomsOf(u) == {u, UserRoom(u)}
AllPersonalRooms == UNION {PersonalRoomsOf(u) : u \in Users}

\* C7: for one logical event (a community creation request, a post
\* deletion, a moderation action) a connection receives an event name at
\* most once, also when it is in several of the rooms the event is sent to.
\* Stated for connections that are in no other user's personal room.
C7_AtMostOncePerConnection ==
    \A c \in Conns :
        (Live(c) /\ rooms[c] \cap AllPersonalRooms \subseteq PersonalRoomsOf(connUser[c]))
            => \A n \in {"community:newApprovalRequest", "postDeleted",
                         "moderation:log:created"} : Deliveries(c, n) <= 1

\* ------------------------------------------------------------------ C8
ContentEventNames == {"newPost", "postUpdated", "postDeleted", "pollVoteUpdated"}

\* C8: a content event is emitted to exactly one room, community:<id> when
\* the post belongs to a community and global:feed otherwise, and never to
\* a personal room.
C8_ContentEventToOneRoom ==
    \A n \in ContentEventNames :
        LET sent == {i \in 1..Len(emits) : emits[i].name = n} IN
        sent # {} =>
            /\ Cardinality(sent) = 1
            /\ \A i \in sent :
                  /\ emits[i].kind = "room"
                  /\ emits[i].room = GetPostTargetRoom(PostCommunity(lastOp.arg))

\* ------------------------------------------------------------------ C9
DirectNotificationNames == {"newNotification", "user:newFollower"}

NotifiedBy(k, parentDocs) ==
    LET k_doc == comments'[k]
        target == IF k_doc.parent # NoComment
                  THEN IF parentDocs[k_doc.parent].exists
                       THEN parentDocs[k_doc.parent].author ELSE NoUser
                  ELSE posts[k_doc.post].author
    IN IF target = k_doc.author THEN NoUser ELSE target

PersonalPushNames ==
    {"notification:count:update", "newNotification", "community:approved",
     "community:rejected", "membership:request:approved",
     "membership:request:rejected", "invitation:sent", "invitation:accepted",
     "invitation:declined"}

\* C10: every push addressed to user U targets a room that each live
\* connection of U has been in since its handshake, so that it reaches
\* every live connection of U without any further client event.
C10_PushReachesConnectRoom ==
    \A i \in 1..Len(emits), u \in Users :
        (/\ emits[i].kind = "room"
         /\ emits[i].name \in PersonalPushNames
         /\ emits[i].room \in PersonalRoomsOf(u))
            => /\ emits[i].room \in ConnectRooms(u)
               /\ \A c \in Conns :
                     (Live(c) /\ connUser[c] = u) => c \in Receivers(emits[i])

\* ------------------------------------------------------------------ C11
\* the user:onlineList broadcasts of the last handler
OnlineListEmits == {i \in 1..Len(emits) : emits[i].name = "user:onlineList"}

\* C11: right after the connection handler has run for a socket of user U,
\* the socket is in the room named by U's id and the user:onlineList it
\* broadcast lists U exactly once, however many sockets U has.
C11_PersonalRoomAndListedOnce ==
    lastOp.op = "connect" =>
        /\ lastOp.user \in rooms[lastOp.conn]
        /\ Cardinality(OnlineListEmits) = 1
        /\ \A i \in OnlineListEmits :
              /\ emits[i].kind = "all"
              /\ CopiesIn(lastOp.user, emits[i].data) = 1

\* a second socket of a user has just connected while the first is live
C11_Witness ==
    /\ lastOp.op = "connect"
    /\ \E c \in Conns :
          c # lastOp.conn /\ Live(c) /\ connUser[c] = lastOp.user

\* ------------------------------------------------------------------ C12
\* C12: when a socket of user U disconnects while another socket of U is
\* connected, U stays in the online-user registry.
C12_OtherConnectionKeepsUserOnline ==
    (/\ lastOp.op = "disconnect"
     /\ \E c \in Conns : Live(c) /\ connUser[c] = lastOp.user)
    => onlineUsers[lastOp.user] # NoConn

\* ------------------------------------------------------------------ C13
\* C13: when the last connected socket of user U disconnects, U leaves the
\* registry and exactly one user:onlineList is broadcast, whose list does
\* not name U.
C13_LastDisconnectBroadcastsRemoval ==
    (/\ lastOp.op = "disconnect"
     /\ ~ \E c \in Conns : Live(c) /\ connUser[c] = lastOp.user)
    => /\ onlineUsers[lastOp.user] = NoConn
       /\ Cardinality(OnlineListEmits) = 1
       /\ \A i \in OnlineListEmits : CopiesIn(lastOp.user, emits[i].data) = 0

\* ------------------------------------------------------------------ C14
\* connection attempts with every kind of credential, over all sockets
NextHandshake ==
    \/ \E c \in Conns, token \in BadTokens \cup Users : Handshake(c, token)
    \/ \E c \in Conns, found \in BOOLEAN : LookupDone(c, found)
    \/ \E c \in Conns : Disconnect(c)

SpecHandshake == InitRooms /\ [][NextHandshake]_vars

\* C14: a connection attempt with no token, a token that fails
\* verification or a token without a user id ends with the socket closed,
\* in no room, with no registry entry and no broadcast, and leaves the
\* registry and the rooms of every socket as they were.
C14_RejectedHandshakeLeavesNoTrace ==
    [][\A c \in Conns, token \in BadTokens :
          Handshake(c, token) =>
             /\ connState'[c] = "closed"
             /\ connUser'[c] = NoUser
             /\ rooms'[c] = {}
             /\ rooms' = rooms
             /\ onlineUsers' = onlineUsers
             /\ emits' = <<>>
      ]_vars

\* a socket was refused while another user's socket is registered
C14_Witness ==
    /\ lastOp.op = "handshake"
    /\ lastOp.arg \in BadTokens
    /\ connState[lastOp.conn] = "closed"
    /\ \E u \in Users : onlineUsers[u] # NoConn /\ Live(onlineUsers[u])

\* ------------------------------------------------------------------ C15
\* the sockets of the moderation-log specification
AuditSockets == {1}

\* an approved community owned by the admin, with or without the other
\* user as owner, moderator or member
InitAudit ==
    /\ InitSockets /\ InitChat /\ InitPosts
    /\ commStatus = [x \in Communities |-> "approved"]
    /\ owners \in [Communities -> {{"a"}, {"a", "u"}}]
    /\ moderators \in [Communities -> {{}, {"a"}}]
    /\ members \in [Communities -> {{}, {"u"}}]

NextAudit ==
    \/ \E c \in AuditSockets, u \in Users : Connect(c, u)
    \/ \E c \in AuditSockets, found \in BOOLEAN : LookupDone(c, found)
    \/ \E c \in AuditSockets : Disconnect(c)
    \/ \E x \in LogCommunityArgs, m \in ModeratorArgs, action \in LogActions,
          saveOk \in BOOLEAN : CreateLogInternal(x, m, action, saveOk)
    \/ \E x \in LogCommunityArgs, m \in Users, action \in LogActions,
          saveOk \in BOOLEAN : CreateLog(x, m, action, saveOk)

SpecAudit == InitAudit /\ [][NextAudit]_vars

\* the membership-request and invitation flows over the same communities
NextDecisions ==
    \/ \E c \in AuditSockets, u \in Users : Connect(c, u)
    \/ \E c \in AuditSockets, found \in BOOLEAN : LookupDone(c, found)
    \/ \E c \in AuditSockets : Disconnect(c)
    \/ \E x \in Communities, u \in Users, saveOk \in BOOLEAN :
          RequestMembership(x, u, saveOk)
    \/ \E x \in Communities, s \in Users, u \in Users, saveOk \in BOOLEAN :
          SendInvitation(x, s, u, saveOk)
    \/ \E x \in Communities, u \in Users, r \in Users,
          action \in {"approve", "reject"}, commSaveOk \in BOOLEAN,
          saveOk \in BOOLEAN :
          ReviewMembershipRequest(x, u, r, action, commSaveOk, saveOk)
    \/ \E x \in Communities, u \in Users, r \in Users,
          action \in {"accept", "decline"}, commSaveOk \in BOOLEAN,
          saveOk \in BOOLEAN :
          RespondToInvitation(x, u, r, action, commSaveOk, saveOk)

SpecDecisions == InitAudit /\ [][NextDecisions]_vars

\* the moderation:log:created emits of the last handler
LogEventEmits == {i \in 1..Len(emits) : emits[i].name = "moderation:log:created"}

\* C15: every moderation:log:created is emitted to community:<id>, and
\* only there, when the logged action has a community id, and to
\* admin:dashboard_logs when it has none.
C15_LogEventToCommunityOrDashboard ==
    \A i \in LogEventEmits :
        emits[i] = ToRoom(IF lastOp.arg # NoCommunity
                          THEN CommunityRoom(lastOp.arg)
                          ELSE AdminDashboardLogs,
                          "moderation:log:created")

\* ------------------------------------------------------------------ C16
\* how many badge pushes the last handler addressed to user u
BadgePushesTo(u) ==
    Cardinality({i \in 1..Len(emits') :
                    emits'[i] = ToRoom(UserRoom(u), "notification:count:update")})

\* C16: a moderation log created for a community persists exactly one
\* entry and pushes notification:count:update once to each user of
\* owners \cup moderators who is in the registry, and to nobody else.
C16_OneLogOnePushPerOnlineAdmin ==
    [][(/\ lastOp'.op \in {"createLogInternal", "createLog"}
        /\ lastOp'.arg \in Communities
        /\ lastOp'.ok)
       => /\ Len(logs') = Len(logs) + 1
          /\ \A u \in Users :
                BadgePushesTo(u) =
                   IF /\ u \in owners[lastOp'.arg] \cup moderators[lastOp'.arg]
                      /\ onlineUsers[u] # NoConn
                   THEN 1 ELSE 0
      ]_vars

\* a log was created while a user who is both owner and moderator of the
\* community is online and another owner is not
C16_Witness ==
    /\ lastOp.op = "createLogInternal"
    /\ lastOp.arg \in Communities
    /\ lastOp.ok
    /\ \E u \in Users :
          /\ u \in owners[lastOp.arg] \cap moderators[lastOp.arg]
          /\ onlineUsers[u] # NoConn
    /\ \E u \in Users : u \in owners[lastOp.arg] /\ onlineUsers[u] = NoConn

\* ------------------------------------------------------------------ C17
\* C17: a handler that emits moderation:log:created has saved a moderation
\* log entry before the emit.
C17_LogEventOnlyAfterSave ==
    [][(\E i \in 1..Len(emits') : emits'[i].name = "moderation:log:created")
       => Len(logs') = Len(logs) + 1
      ]_vars

\* ------------------------------------------------------------------ C18
\* C18: createLogInternal called with a malformed moderator id, a
\* malformed community id or no action saves no log entry, emits nothing
\* and returns null.
C18_RejectedLogWritesNothing ==
    [][\A x \in LogCommunityArgs, m \in ModeratorArgs, action \in LogActions,
         saveOk \in BOOLEAN :
          (/\ m = BadId \/ x = BadId \/ action = ""
           /\ CreateLogInternal(x, m, action, saveOk))
          => /\ logs' = logs
             /\ emits' = <<>>
             /\ ~lastOp'.ok
      ]_vars

\* createLogInternal has refused a malformed moderator id for a community
\* one of whose owners is online
C18_Witness ==
    /\ lastOp.op = "createLogInternal"
    /\ lastOp.user = BadId
    /\ lastOp.arg \in Communities
    /\ ~lastOp.ok
    /\ \E u \in Users : u \in owners[lastOp.arg] /\ onlineUsers[u] # NoConn

\* ------------------------------------------------------------------ C19
\* C19: when the save of the moderation log fails inside createCommunity,
\* reviewCommunity or deletePost, the request still succeeds and its own
\* change stays (the community is stored pending, its status is decided,
\* the post is gone); no log entry is written and no log event emitted.
C19_FailedLogKeepsPrimaryAction ==
    [][(/\ lastOp'.op \in {"createCommunity", "reviewCommunity", "deletePost"}
        /\ ~lastOp'.db)
       => /\ lastOp'.ok
          /\ logs' = logs
          /\ \A i \in 1..Len(emits') : emits'[i].name # "moderation:log:created"
          /\ CASE lastOp'.op = "createCommunity" ->
                    /\ commStatus[lastOp'.arg] = "none"
                    /\ commStatus'[lastOp'.arg] = "pending"
                    /\ owners'[lastOp'.arg] = {lastOp'.user}
               [] lastOp'.op = "reviewCommunity" ->
                    /\ commStatus[lastOp'.arg] = "pending"
                    /\ commStatus'[lastOp'.arg] \in {"approved", "rejected"}
               [] OTHER ->
                    /\ posts[lastOp'.arg].exists
                    /\ ~posts'[lastOp'.arg].exists
                    /\ \E i \in 1..Len(emits') : emits'[i].name = "postDeleted"
      ]_vars

\* a community was approved although the save of its log entry failed
C19_Witness ==
    /\ lastOp.op = "reviewCommunity"
    /\ ~lastOp.db
    /\ commStatus[lastOp.arg] = "approved"

\* ------------------------------------------------------------------ C20
DecisionEventNames ==
    {"membership:request:approved", "membership:request:rejected",
     "invitation:accepted", "invitation:declined"}

\* C20: a handler that emits a decision event has persisted the new status
\* of the request or invitation it decides.
C20_DecisionEventOnlyAfterPersist ==
    [][(\E i \in 1..Len(emits') : emits'[i].name \in DecisionEventNames)
       => \/ /\ lastOp'.op = "reviewMembershipRequest"
             /\ \E u \in Users :
                   /\ requests[lastOp'.arg][u] = "pending"
                   /\ requests'[lastOp'.arg][u] \in {"approved", "rejected"}
          \/ /\ lastOp'.op = "respondToInvitation"
             /\ invitations[lastOp'.arg][lastOp'.user].status = "pending"
             /\ invitations'[lastOp'.arg][lastOp'.user].status
                   \in {"accepted", "declined"}
      ]_vars

\* ------------------------------------------------------------------ C21
\* the sockets of the ordering specification
OrderSockets == {1}

NextOrder ==
    \/ \E c \in OrderSockets, u \in Users : Connect(c, u)
    \/ \E c \in OrderSockets : LookupDone(c, TRUE)
    \/ \E c \in OrderSockets, ct \in ConversationTypes, k \in ConvArgs,
          t \in Texts : SendMessageArrives(c, ct, k, t)
    \/ \E c \in OrderSockets, seq \in MsgIds, ok \in BOOLEAN :
          SendMessageResumes(c, seq, ok)

\* one socket sending messages whose handlers overlap
SpecOrder == InitChatSpec /\ [][NextOrder]_vars

\* C21: the newMessage broadcasts of one connection are made in the order
\* in which its sendMessage events arrived, and when an event's broadcast
\* is made no earlier event of that connection is still being handled.
C21_BroadcastsInArrivalOrder ==
    /\ \A i, j \in 1..Len(broadcasts) :
          (i < j /\ broadcasts[i].conn = broadcasts[j].conn)
             => broadcasts[i].seq < broadcasts[j].seq
    /\ \A i \in 1..Len(broadcasts), h \in inflight :
          h.conn = broadcasts[i].conn => h.seq > broadcasts[i].seq

\* ------------------------------------------------------------------ C22
\* C22: a socket action that fails answers with one errorMessage to the
\* socket it came from, emits nothing else, and leaves the registry and
\* the rooms of every socket unchanged.
C22_FailedActionAnswersSenderOnly ==
    [][(/\ lastOp'.op \in {"sendMessage", "editMessage", "deleteMessage"}
        /\ ~lastOp'.ok)
       => /\ emits' = <<ToSocket(lastOp'.conn, "errorMessage")>>
          /\ rooms' = rooms
          /\ onlineUsers' = onlineUsers
      ]_vars

\* ------------------------------------------------------------------ C23
\* the community rooms a socket is in
CommunityRoomsOf(c) == {x \in Communities : CommunityRoom(x) \in rooms[c]}

\* C23: when the connect-time community lookup succeeds, the community rooms
\* of the new connection are exactly those of the approved communities that
\* list the user as member, owner or moderator.
C23_AutoJoinExactlyApproved ==
    [][(lastOp'.op = "lookup" /\ lastOp'.ok)
       => {x \in Communities : CommunityRoom(x) \in rooms'[lastOp'.conn]} =
            {x \in Communities :
                /\ commStatus[x] = "approved"
                /\ \/ lastOp'.user \in members[x]
                   \/ lastOp'.user \in owners[x]
                   \/ lastOp'.user \in moderators[x]}
      ]_vars

\* a successful lookup has joined the room of an approved community that
\* lists the user as moderator only
C23_Witness ==
    /\ lastOp.op = "lookup" /\ lastOp.ok
    /\ \E x \in CommunityRoomsOf(lastOp.conn) :
          /\ lastOp.user \in moderators[x]
          /\ lastOp.user \notin members[x] \cup owners[x]

\* ------------------------------------------------------------------ C24
\* the newNotification emits of the last handler
NewNotificationEmits(es) ==
    {i \in 1..Len(es) : es[i].name = "newNotification"}

LikesSet(likes) == {likes[i] : i \in 1..Len(likes)}

C27_DeleteOnlyByAuthorOnce ==
    [][lastOp'.op = "deleteComment"
       => \A k \in CommentIds : CommentKey(k) = lastOp'.arg =>
            LET doc == comments[k]
                allowed == doc.exists /\ ~doc.isDeleted /\ doc.author = lastOp'.user
            IN /\ lastOp'.ok => allowed
               /\ lastOp'.ok =>
                    /\ comments'[k] = [doc EXCEPT !.isDeleted = TRUE,
                                                  !.content = DeletedText]
                    /\ \A j \in CommentIds \ {k} :
                          comments'[j] =
                             IF j = doc.parent /\ comments[j].exists
                             THEN [comments[j] EXCEPT
                                     !.repliesCount = comments[j].repliesCount - 1]
                             ELSE comments[j]
               /\ ~allowed => ~lastOp'.ok /\ comments' = comments
               /\ (~lastOp'.ok /\ lastOp'.conn # NoConn)
                     => emits' = <<ToSocket(lastOp'.conn, "errorMessage")>>
      ]_vars

\* the author of a reply has deleted it and the parent counts no reply
C27_Witness ==
    /\ lastOp.op = "deleteComment" /\ lastOp.ok
    /\ \E k \in CommentIds :
          /\ CommentKey(k) = lastOp.arg
          /\ comments[k].isDeleted
          /\ comments[k].content = DeletedText
          /\ comments[k].parent # NoComment
          /\ comments[comments[k].parent].repliesCount = 0

\* ------------------------------------------------------------------ C28
JoinOps == {"joinRoom", "joinGlobalFeedRoom", "joinPostRoom"}
LeaveOps == {"leaveRoom", "leaveGlobalFeedRoom", "leavePostRoom"}

\* the room a join or leave names
RoomOfOp(op) ==
    IF op.op \in {"joinRoom", "leaveRoom"} THEN op.arg
    ELSE IF op.op \in {"joinPostRoom", "leavePostRoom"} THEN PostRoom(op.arg)
    ELSE GlobalFeed

\* C28: a join of room R by connection C leaves C in R and a leave leaves C
\* out of R; joining a room C is in, or leaving a room C is not in, changes
\* no membership; no join or leave changes the membership of another room
\* or of another connection.
C28_JoinLeaveIdempotentAndFramed ==
    [][(lastOp'.op \in JoinOps \cup LeaveOps)
       => LET C == lastOp'.conn
              R == RoomOfOp(lastOp')
          IN /\ \A d \in Conns \ {C} : rooms'[d] = rooms[d]
             /\ rooms'[C] \ {R} = rooms[C] \ {R}
             /\ (R \in rooms'[C]) = (lastOp'.op \in JoinOps)
             /\ ((R \in rooms[C]) = (lastOp'.op \in JoinOps)) => rooms' = rooms
      ]_vars

\* a socket has left a room it was not in while the other socket stays in
\* that room and the leaving socket stays in another room it joined
C28_Witness ==
    /\ lastOp.op = "leavePostRoom"
    /\ \E d \in Conns \ {lastOp.conn} :
          /\ PostRoom(lastOp.arg) \in rooms[d]
          /\ GlobalFeed \in rooms[d]
    /\ GlobalFeed \in rooms[lastOp.conn]
    /\ "k" \in rooms[lastOp.conn]

\* ------------------------------------------------------------------ C29
\* every operation that writes the moderation log: the two log functions
\* and the removal of posts
NextTrail ==
    \/ \E x \in LogCommunityArgs, m \in ModeratorArgs, action \in LogActions,
          saveOk \in BOOLEAN : CreateLogInternal(x, m, action, saveOk)
    \/ \E x \in LogCommunityArgs, m \in Users, action \in LogActions,
          saveOk \in BOOLEAN : CreateLog(x, m, action, saveOk)
    \/ \E p \in Posts, u \in Users : CreatePost(p, u)
    \/ \E p \in Posts, u \in Users, logOk \in BOOLEAN : DeletePost(p, u, logOk)

SpecTrail == InitAudit /\ [][NextTrail]_vars

\* C29: the moderation log only grows: every step keeps each persisted
\* entry, with every field, at its place and at most appends to them.
C29_LogEntriesNeverChange ==
    [][/\ Len(logs') >= Len(logs)
       /\ \A i \in 1..Len(logs) : logs'[i] = logs[i]
      ]_vars

\* the removal of a post was logged after an entry another operation wrote
C29_Witness ==
    /\ lastOp.op = "deletePost" /\ lastOp.ok /\ lastOp.db
    /\ Len(logs) = 2
    /\ logs[1].action # "post_removed"
    /\ logs[2].action = "post_removed"

\* ------------------------------------------------------------------ C30
\* C30: when the approval of a membership request or the acceptance of an
\* invitation adds a user who is online to the members of a community, the
\* user's registered socket is in the community's room when the handler
\* finishes, and the handler reports success.
C30_NewMemberOnlineJoinsRoom ==
    [][(lastOp'.op \in {"reviewMembershipRequest", "respondToInvitation"})
       => \A x \in Communities, u \in Users :
            (/\ u \in members'[x] \ members[x]
             /\ onlineUsers[u] # NoConn)
            => /\ CommunityRoom(x) \in rooms'[onlineUsers[u]]
               /\ lastOp'.ok
      ]_vars

\* ------------------------------------------------------------------ C31
\* C31: no client event adds a connection to community:X while its user is
\* neither member, owner nor moderator of X, nor to the room <id> or
\* user:<id> of a user other than the one the connection is authenticated
\* as.
C31_RoomIsolation ==
    [][\A c \in Conns :
          LET joined == rooms'[c] \ rooms[c] IN
          /\ \A x \in Communities :
                CommunityRoom(x) \in joined =>
                    \/ connUser'[c] \in members[x]
                    \/ connUser'[c] \in owners[x]
                    \/ connUser'[c] \in moderators[x]
          /\ \A u \in Users :
                (joined \cap {u, UserRoom(u)} # {}) => u = connUser'[c]
      ]_vars

\* ------------------------------------------------------------------ C32
\* C32: when sendInvitation, respondToInvitation or reviewMembershipRequest
\* answers with an error, the persisted state is as before: no invitation
\* was created, no user was added to the members, and every request and
\* invitation has its previous status.
C32_ErrorLeavesPersistedStateUnchanged ==
    [][(/\ lastOp'.op \in {"sendInvitation", "respondToInvitation",
                           "reviewMembershipRequest"}
        /\ ~lastOp'.ok)
       => /\ members' = members
          /\ invitations' = invitations
          /\ requests' = requests
      ]_vars

\* ------------------------------------------------------------------ C33
\* the indexes of calls, as far as MaxCalls allows
CallIndexes == 1..MaxCalls

\* communities created and reviewed by requests that overlap
NextReview ==
    \/ \E x \in Communities, u \in Users, logOk \in BOOLEAN :
            CreateCommunity(x, u, logOk)
    \/ \E x \in Communities, a \in Users, act \in {"approve", "reject"} :
            ReviewCommunityReads(x, a, act)
    \/ \E i \in CallIndexes, cr \in Users, logOk \in BOOLEAN :
            ReviewCommunitySaves(i, cr, logOk)

SpecReview == InitFan /\ [][NextReview]_vars

\* the log entries of the reviews of community x
ReviewEntries(ls, x) ==
    {i \in 1..Len(ls) :
        /\ ls[i].communityId = x
        /\ ls[i].action \in {"community_approved", "community_rejected"}}

\* C33: the status of a community leaves "pending" once and never changes
\* afterwards, and however the reviewCommunity requests overlap at most one
\* of them takes effect: the log holds at most one community_approved or
\* community_rejected entry per community, and a step that finds the
\* community reviewed notifies nobody.
C33_ReviewedOnce ==
    [][\A x \in Communities :
          /\ commStatus[x] \in {"approved", "rejected"}
                => /\ commStatus'[x] = commStatus[x]
                   /\ (lastOp'.op = "reviewCommunity" /\ lastOp'.arg = x)
                         => emits' = <<>>
          /\ Cardinality(ReviewEntries(logs', x)) <= 1
      ]_vars

\* ------------------------------------------------------------------ C34
\* votes cast on a single-selection poll by requests that overlap
NextPoll ==
    \/ \E u \in Users, o \in OptionArgs : CastPollVoteReads(u, o)
    \/ \E i \in CallIndexes, saveOk \in BOOLEAN : CastPollVoteSaves(i, saveOk)

SpecPoll == InitChatSpec /\ [][NextPoll]_vars

\* C34: once every castPollVote request has completed, the vote counts of
\* the options add up to the number of distinct users in votedUsers: each
\* user is counted once and no increment is lost.
C34_VotesMatchVoters ==
    calls = <<>> =>
        poll.votes["yes"] + poll.votes["no"]
            = Cardinality({poll.votedUsers[i] : i \in 1..Len(poll.votedUsers)})

\* ------------------------------------------------------------------ C35
\* an approved community of owner "a" that has no member yet
InitMembers ==
    /\ InitSockets /\ InitChat /\ InitPosts
    /\ members = [x \in Communities |-> {}]
    /\ owners = [x \in Communities |-> {"a"}]
    /\ moderators = [x \in Communities |-> {}]
    /\ commStatus = [x \in Communities |-> "approved"]

\* requests approved and invitations accepted by handlers that overlap
NextMembers ==
    \/ \E x \in Communities, u \in Users : RequestMembership(x, u, TRUE)
    \/ \E x \in Communities, u \in Users : SendInvitation(x, "a", u, TRUE)
    \/ \E x \in Communities, u \in Users, via \in AddMemberVias,
          statsLoaded \in BOOLEAN : AddMemberReads(x, u, via, statsLoaded)
    \/ \E i \in CallIndexes, saveOk \in BOOLEAN : AddMemberSaves(i, saveOk)

SpecMembers == InitMembers /\ [][NextMembers]_vars

\* C35: however the approvals and acceptances for a community overlap, its
\* members list holds each user at most once and membersCount, which starts
\* at zero, is the number of users added.
C35_MembersCountedOnce ==
    \A x \in Communities :
        /\ \A i, j \in 1..Len(memberList[x]) :
              memberList[x][i] = memberList[x][j] => i = j
        /\ calls = <<>> => membersCount[x] = Len(memberList[x])

\* ------------------------------------------------------------------ C36
\* replies created and comments deleted by requests that overlap
NextReplies ==
    \/ \E u \in Users, par \in ParentArgs : CreateCommentOrReply(u, par)
    \/ \E u \in Users, k \in CommentIds : DeleteCommentReads(u, k)
    \/ \E i \in CallIndexes, saveOk \in BOOLEAN : DeleteCommentSaves(i, saveOk)

SpecReplies == InitNotify /\ [][NextReplies]_vars

\* the replies to comment P that are not deleted
LiveReplies(P) ==
    {k \in CommentIds :
        comments[k].exists /\ comments[k].parent = P /\ ~comments[k].isDeleted}

\* C36: the repliesCount of a comment is never negative and, once every
\* request has completed, is the number of its replies that are not
\* deleted, however reply creations and deletions overlap.
C36_RepliesCountMatchesReplies ==
    \A P \in CommentIds :
        comments[P].exists =>
            /\ comments[P].repliesCount >= 0
            /\ calls = <<>> =>
                  comments[P].repliesCount = Cardinality(LiveReplies(P))

\* ------------------------------------------------------------------ C37
\* the sockets of the edit specification
EditSockets == {1}

\* one socket sending, editing and deleting messages by handlers that overlap
NextEdits ==
    \/ \E c \in EditSockets, u \in Users : Connect(c, u)
    \/ \E c \in EditSockets : LookupDone(c, TRUE)
    \/ \E c \in EditSockets, ct \in ConversationTypes, att \in {{}, {"f"}} :
            SendMessage(c, ct, "k", "yo", att, TRUE, TRUE, TRUE)
    \/ \E c \in EditSockets, m \in MsgIds : EditMessageReads(c, m, " yo ")
    \/ \E i \in CallIndexes : EditMessageSaves(i)
    \/ \E c \in EditSockets, m \in MsgIds : DeleteMessageReads(c, m)
    \/ \E i \in CallIndexes : DeleteMessageSaves(i)

SpecEdits == InitChatSpec /\ [][NextEdits]_vars

\* C37: a deleted chat message has the placeholder text and no
\* attachments; once deleted it is never modified again and no editMessage
\* or deleteMessage on it broadcasts messageEdited or messageDeleted,
\* however the handlers overlap.
C37_DeletedMessageIsFinal ==
    [][\A m \in MsgIds :
          /\ messages'[m].isDeleted =>
                /\ messages'[m].text = DeletedText
                /\ messages'[m].attachments = {}
          /\ messages[m].isDeleted =>
                /\ messages'[m] = messages[m]
                /\ (/\ lastOp'.op \in {"editMessage", "deleteMessage"}
                    /\ lastOp'.arg = ToString(m))
                      => \A i \in 1..Len(emits') : emits'[i].kind # "room"
      ]_vars

\* ------------------------------------------------------------------ C38
\* updatePost requests with a likes or a dislikes list, overlapping
NextReactions ==
    \/ \E u \in Users, f \in ReactionFields, t \in BOOLEAN, notifOk \in BOOLEAN :
            UpdatePostReads(u, f, t, notifOk)
    \/ \E i \in CallIndexes : UpdatePostWrites(i)

SpecReactions == InitNotify /\ [][NextReactions]_vars

\* no element of the array twice
NoDuplicates(arr) ==
    \A i, j \in 1..Len(arr) : arr[i] = arr[j] => i = j

\* C38: however updatePost requests that carry a likes list or a dislikes
\* list follow each other and overlap, no user is in both the likes and the
\* dislikes of the post, and no user is twice in either of them.
C38_LikesAndDislikesDisjoint ==
    /\ \A u \in Users :
          ~(Includes(reactions.likes, u) /\ Includes(reactions.dislikes, u))
    /\ NoDuplicates(reactions.likes)
    /\ NoDuplicates(reactions.dislikes)

\* the like of a user has been stored while a dislike request of the same
\* user, built from the post as it was before, still waits to be applied,
\* and another user dislikes the post
C38_Witness ==
    /\ lastOp.op = "updatePost" /\ lastOp.arg = "likes"
    /\ Includes(reactions.likes, lastOp.user)
    /\ \E u \in Users \ {lastOp.user} : Includes(reactions.dislikes, u)
    /\ \E i \in 1..Len(calls) :
          /\ calls[i].kind = "updatePost" /\ calls[i].user = lastOp.user
          /\ calls[i].field = "dislikes" /\ calls[i].query.addToSet = {"dislikes"}

====
